---- MODULE Spec2Model ----
(***************************************************************************)
(* ClawLobstars planning & execution core: the planner (plan generation,  *)
(* task scheduling, completion tracking) of src/src/planning/cls_planning.c*)
(* and the action executor (handler registry, execution history ring,     *)
(* rollback) of src/src/action/cls_action.c.                              *)
(*                                                                         *)
(* Floats (confidence, cost, reward) are carried in ten-thousandths, so   *)
(* that the 0.8 discount of replan stays exact over the chains of replans *)
(* the plan table allows; the monotonic-clock stamps (started_at,         *)
(* completed_at, duration_us) and the opaque params pointer are left out: *)
(* no operation branches on them.                                         *)
(***************************************************************************)
EXTENDS Integers, Sequences, FiniteSets

VARIABLES planner, exec, last, rolled, thread, agent

vars == <<planner, exec, last, rolled, thread, agent>>

(* ---- cls_status_t ---- *)
CLS_OK == 0
CLS_ERR_NOMEM == -1
CLS_ERR_INVALID == -2
CLS_ERR_OVERFLOW == -4
CLS_ERR_NOT_FOUND == -5
CLS_ERR_STATE == -9
CLS_ERR_INTERNAL == -99

CLS_IS_OK(s) == s = CLS_OK

(* ---- cls_plan_status_t ---- *)
CLS_PLAN_PENDING == 0
CLS_PLAN_ACTIVE == 1
CLS_PLAN_COMPLETE == 2
CLS_PLAN_FAILED == 3
CLS_PLAN_CANCELLED == 4

(* ---- cls_action_status_t ---- *)
CLS_ACTION_IDLE == 0
CLS_ACTION_RUNNING == 1
CLS_ACTION_SUCCESS == 2
CLS_ACTION_FAILED == 3
CLS_ACTION_ROLLEDBACK == 4

(* ---- bounds of the model ---- *)
MaxHandlers == 2
MaxHistory == 2
MaxExecs == 4
MaxBatch == 2
MaxTasks == 2
MaxTaskExecs == 1
MaxPlans == 2
MaxGoals == 2
MaxCycles == 3

(***************************************************************************)
(* Action executor                                                         *)
(***************************************************************************)

(* A zeroed cls_action_record_t (memset / calloc). *)
ZeroRecord ==
  [exec_id |-> 0, action_id |-> 0, status |-> CLS_ACTION_IDLE,
   result_code |-> 0, rolled_back |-> FALSE]

(* cls_action_init: empty registry, zeroed history ring, next_exec_id = 1. *)
cls_action_init(max_handlers, max_history) ==
  [handlers |-> <<>>,
   max_handlers |-> max_handlers,
   history |-> [i \in 0..(max_history - 1) |-> ZeroRecord],
   history_count |-> 0,
   max_history |-> max_history,
   next_exec_id |-> 1,
   total_executed |-> 0,
   total_success |-> 0,
   total_failed |-> 0,
   total_rollbacks |-> 0]

(* Index (1-based) of the first handler registered for action_id, 0 if none. *)
find_handler(e, action_id) ==
  LET hit == {i \in 1..Len(e.handlers) : e.handlers[i].action_id = action_id}
  IN IF hit = {} THEN 0 ELSE CHOOSE i \in hit : \A j \in hit : i <= j

(* Slot (0-based) of the first record among the first                      *)
(* min(history_count, max_history) slots whose exec_id matches, -1 if none *)
find_record(e, exec_id) ==
  LET hit == {i \in 0..(e.max_history - 1) :
                i < e.history_count /\ e.history[i].exec_id = exec_id}
  IN IF hit = {} THEN -1 ELSE CHOOSE i \in hit : \A j \in hit : i <= j

(* Mutant of record_action: a full history takes no further record.        *)
record_action_drop_when_full(e, rec) ==
  IF e.history_count < e.max_history
  THEN [e EXCEPT !.history[e.history_count] = rec, !.history_count = @ + 1]
  ELSE e

(* record_action: write at history_count % max_history, count saturates.   *)
record_action(e, rec) ==
  LET idx == e.history_count % e.max_history
  IN [e EXCEPT !.history[idx] = rec,
               !.history_count =
                  IF e.history_count < e.max_history THEN @ + 1 ELSE @]

(* Mutant of cls_action_register: no check for a duplicate action_id.      *)
cls_action_register_no_duplicate_check(e, handler) ==
  IF ~handler.has_execute THEN [exec |-> e, rc |-> CLS_ERR_INVALID]
  ELSE IF Len(e.handlers) >= e.max_handlers
    THEN [exec |-> e, rc |-> CLS_ERR_OVERFLOW]
  ELSE [exec |-> [e EXCEPT !.handlers = Append(@, handler)], rc |-> CLS_OK]

(* cls_action_register; handler.has_execute is execute_fn != NULL.         *)
cls_action_register(e, handler) ==
  IF ~handler.has_execute THEN [exec |-> e, rc |-> CLS_ERR_INVALID]
  ELSE IF Len(e.handlers) >= e.max_handlers
    THEN [exec |-> e, rc |-> CLS_ERR_OVERFLOW]
  ELSE IF \E i \in 1..Len(e.handlers) :
            e.handlers[i].action_id = handler.action_id
    THEN [exec |-> e, rc |-> CLS_ERR_INVALID]
  ELSE [exec |-> [e EXCEPT !.handlers = Append(@, handler)], rc |-> CLS_OK]

(* cls_action_unregister: remove the first match, keep the others in order. *)
cls_action_unregister(e, action_id) ==
  LET i == find_handler(e, action_id)
  IN IF i = 0 THEN [exec |-> e, rc |-> CLS_ERR_NOT_FOUND]
     ELSE [exec |-> [e EXCEPT !.handlers =
                        SubSeq(@, 1, i - 1) \o SubSeq(@, i + 1, Len(@))],
           rc |-> CLS_OK]

(* Mutant of execute_found: a failed execution is not counted in           *)
(* total_executed.                                                         *)
execute_found_uncounted_failure(e, action_id, result) ==
  LET rec == [exec_id |-> e.next_exec_id,
              action_id |-> action_id,
              status |-> IF CLS_IS_OK(result) THEN CLS_ACTION_SUCCESS
                                              ELSE CLS_ACTION_FAILED,
              result_code |-> result,
              rolled_back |-> FALSE]
      e1 == [e EXCEPT !.next_exec_id = @ + 1,
                      !.total_success = IF CLS_IS_OK(result) THEN @ + 1 ELSE @,
                      !.total_failed = IF CLS_IS_OK(result) THEN @ ELSE @ + 1,
                      !.total_executed = IF CLS_IS_OK(result) THEN @ + 1 ELSE @]
  IN [exec |-> record_action(e1, rec), rc |-> result, record |-> rec, calls |-> 1]

(* Mutant of execute_found: the exec_id is used without being advanced.    *)
execute_found_reuses_id(e, action_id, result) ==
  LET rec == [exec_id |-> e.next_exec_id,
              action_id |-> action_id,
              status |-> IF CLS_IS_OK(result) THEN CLS_ACTION_SUCCESS
                                              ELSE CLS_ACTION_FAILED,
              result_code |-> result,
              rolled_back |-> FALSE]
      e1 == [e EXCEPT !.total_success = IF CLS_IS_OK(result) THEN @ + 1 ELSE @,
                      !.total_failed = IF CLS_IS_OK(result) THEN @ ELSE @ + 1,
                      !.total_executed = @ + 1]
  IN [exec |-> record_action(e1, rec), rc |-> result, record |-> rec, calls |-> 1]

(* Mutant of execute_found: the caller gets a generic failure code        *)
(* instead of the handler's own.                                           *)
execute_found_generic_code(e, action_id, result) ==
  LET rec == [exec_id |-> e.next_exec_id,
              action_id |-> action_id,
              status |-> IF CLS_IS_OK(result) THEN CLS_ACTION_SUCCESS
                                              ELSE CLS_ACTION_FAILED,
              result_code |-> result,
              rolled_back |-> FALSE]
      e1 == [e EXCEPT !.next_exec_id = @ + 1,
                      !.total_success = IF CLS_IS_OK(result) THEN @ + 1 ELSE @,
                      !.total_failed = IF CLS_IS_OK(result) THEN @ ELSE @ + 1,
                      !.total_executed = @ + 1]
  IN [exec |-> record_action(e1, rec),
      rc |-> IF CLS_IS_OK(result) THEN CLS_OK ELSE CLS_ERR_INTERNAL,
      record |-> rec, calls |-> 1]

(* cls_action_execute once the handler is found: the record, one call of   *)
(* execute_fn returning result, the counters, the history, the return.     *)
(* calls counts the invocations of execute_fn.                             *)
execute_found(e, action_id, result) ==
  LET rec == [exec_id |-> e.next_exec_id,
              action_id |-> action_id,
              status |-> IF CLS_IS_OK(result) THEN CLS_ACTION_SUCCESS
                                              ELSE CLS_ACTION_FAILED,
              result_code |-> result,
              rolled_back |-> FALSE]
      e1 == [e EXCEPT !.next_exec_id = @ + 1,
                      !.total_success = IF CLS_IS_OK(result) THEN @ + 1 ELSE @,
                      !.total_failed = IF CLS_IS_OK(result) THEN @ ELSE @ + 1,
                      !.total_executed = @ + 1]
  IN [exec |-> record_action(e1, rec), rc |-> result, record |-> rec, calls |-> 1]

(* Mutant of cls_action_execute: the exec_id is taken before the handler   *)
(* lookup.                                                                 *)
cls_action_execute_id_first(e, action_id, result) ==
  IF find_handler(e, action_id) = 0
  THEN [exec |-> [e EXCEPT !.next_exec_id = @ + 1],
        rc |-> CLS_ERR_NOT_FOUND, record |-> ZeroRecord, calls |-> 0]
  ELSE execute_found(e, action_id, result)

(* cls_action_execute; result is what the handler's execute_fn returns.    *)
cls_action_execute(e, action_id, result) ==
  IF find_handler(e, action_id) = 0
  THEN [exec |-> e, rc |-> CLS_ERR_NOT_FOUND, record |-> ZeroRecord, calls |-> 0]
  ELSE execute_found(e, action_id, result)

(* The record cls_action_execute fills before it is stored (lines 88-104). *)
execute_record(exec_id, action_id, result) ==
  [exec_id |-> exec_id,
   action_id |-> action_id,
   status |-> IF CLS_IS_OK(result) THEN CLS_ACTION_SUCCESS ELSE CLS_ACTION_FAILED,
   result_code |-> result,
   rolled_back |-> FALSE]

(* Mutant of store_exec_id: the increment is applied to the value in       *)
(* memory, as an atomic fetch-and-add would.                               *)
store_exec_id_atomic(e, loaded) == [e EXCEPT !.next_exec_id = @ + 1]

(* The write half of exec->next_exec_id++ : the value loaded, plus one.    *)
store_exec_id(e, loaded) == [e EXCEPT !.next_exec_id = loaded + 1]

(* The write half of total_success++ or total_failed++ (lines 101-106).    *)
store_outcome_count(e, result, loaded) ==
  IF CLS_IS_OK(result) THEN [e EXCEPT !.total_success = loaded + 1]
  ELSE [e EXCEPT !.total_failed = loaded + 1]

(* The write half of total_executed++ (line 109).                          *)
store_total_executed(e, loaded) == [e EXCEPT !.total_executed = loaded + 1]

(* record_action line 75: exec->history[idx] = *rec.                       *)
store_history(e, idx, rec) == [e EXCEPT !.history[idx] = rec]

(* record_action line 76 after history_count was loaded: the test and the  *)
(* write half of history_count++.                                          *)
store_history_count(e, loaded) ==
  IF loaded < e.max_history THEN [e EXCEPT !.history_count = loaded + 1] ELSE e

(* cls_action_history_count *)
cls_action_history_count(e) == e.history_count

(* cls_action_stats: the four out values, in the order of the parameters.  *)
cls_action_stats(e) ==
  <<e.total_executed, e.total_success, e.total_failed, e.total_rollbacks>>

(* Mutant of rollback_found: the rollback is counted before its result is  *)
(* looked at.                                                              *)
rollback_found_counts_failure(e, i, result) ==
  LET h == find_handler(e, e.history[i].action_id)
  IN IF h = 0 \/ ~e.handlers[h].has_rollback
     THEN [exec |-> e, rc |-> CLS_ERR_INVALID, calls |-> 0]
     ELSE IF CLS_IS_OK(result)
       THEN [exec |-> [e EXCEPT !.history[i].rolled_back = TRUE,
                                !.history[i].status = CLS_ACTION_ROLLEDBACK,
                                !.total_rollbacks = @ + 1],
             rc |-> result, calls |-> 1]
       ELSE [exec |-> [e EXCEPT !.total_rollbacks = @ + 1],
             rc |-> result, calls |-> 1]

(* Mutant of rollback_found: a rolled-back execution is taken out of the   *)
(* success count.                                                          *)
rollback_found_uncounts_success(e, i, result) ==
  LET h == find_handler(e, e.history[i].action_id)
  IN IF h = 0 \/ ~e.handlers[h].has_rollback
     THEN [exec |-> e, rc |-> CLS_ERR_INVALID, calls |-> 0]
     ELSE IF CLS_IS_OK(result)
       THEN [exec |-> [e EXCEPT !.history[i].rolled_back = TRUE,
                                !.history[i].status = CLS_ACTION_ROLLEDBACK,
                                !.total_rollbacks = @ + 1,
                                !.total_success = IF @ > 0 THEN @ - 1 ELSE @],
             rc |-> result, calls |-> 1]
       ELSE [exec |-> e, rc |-> result, calls |-> 1]

(* cls_action_rollback once the record in slot i is found and not yet      *)
(* rolled back; result is what the handler's rollback_fn returns.          *)
rollback_found(e, i, result) ==
  LET h == find_handler(e, e.history[i].action_id)
  IN IF h = 0 \/ ~e.handlers[h].has_rollback
     THEN [exec |-> e, rc |-> CLS_ERR_INVALID, calls |-> 0]
     ELSE IF CLS_IS_OK(result)
       THEN [exec |-> [e EXCEPT !.history[i].rolled_back = TRUE,
                                !.history[i].status = CLS_ACTION_ROLLEDBACK,
                                !.total_rollbacks = @ + 1],
             rc |-> result, calls |-> 1]
       ELSE [exec |-> e, rc |-> result, calls |-> 1]

(* Mutant of cls_action_rollback: no check of rolled_back.                 *)
cls_action_rollback_unchecked(e, exec_id, result) ==
  LET i == find_record(e, exec_id)
  IN IF i < 0 THEN [exec |-> e, rc |-> CLS_ERR_NOT_FOUND, calls |-> 0]
     ELSE rollback_found(e, i, result)

(* cls_action_rollback *)
cls_action_rollback(e, exec_id, result) ==
  LET i == find_record(e, exec_id)
  IN IF i < 0 THEN [exec |-> e, rc |-> CLS_ERR_NOT_FOUND, calls |-> 0]
     ELSE IF e.history[i].rolled_back
       THEN [exec |-> e, rc |-> CLS_ERR_STATE, calls |-> 0]
     ELSE rollback_found(e, i, result)

(* cls_action_get_record *)
cls_action_get_record(e, exec_id) ==
  LET i == find_record(e, exec_id)
  IN IF i < 0 THEN [rc |-> CLS_ERR_NOT_FOUND, record |-> ZeroRecord]
     ELSE [rc |-> CLS_OK, record |-> e.history[i]]

(***************************************************************************)
(* Planner                                                                 *)
(***************************************************************************)

(* 1.0f, 0.1f (decisions[i].confidence < 0.1f) in ten-thousandths *)
One == 10000
MinConfidence == 1000

CLS_MIN(a, b) == IF a < b THEN a ELSE b
CLS_MAX(a, b) == IF a > b THEN a ELSE b
CLS_CLAMP(x, lo, hi) == CLS_MIN(CLS_MAX(x, lo), hi)

(* cls_planner_init: empty plan table of capacity max_plans and empty goal *)
(* table of capacity max_goals.                                            *)
cls_planner_init(max_plans, max_goals) ==
  [plans |-> <<>>, max_plans |-> max_plans, plans_generated |-> 0,
   goals |-> <<>>, max_goals |-> max_goals]

(* cls_planner_get_goal: index (1-based) of the first goal with goal_id, 0 *)
(* for NULL.                                                               *)
RECURSIVE get_goal_from(_, _, _)
get_goal_from(p, goal_id, i) ==
  IF i > Len(p.goals) THEN 0
  ELSE IF p.goals[i].goal_id = goal_id THEN i
  ELSE get_goal_from(p, goal_id, i + 1)

cls_planner_get_goal(p, goal_id) == get_goal_from(p, goal_id, 1)

(* cls_planner_add_goal: append a copy of the caller's goal. *)
cls_planner_add_goal(p, goal) ==
  IF Len(p.goals) >= p.max_goals THEN [planner |-> p, rc |-> CLS_ERR_OVERFLOW]
  ELSE [planner |-> [p EXCEPT !.goals = Append(@, goal)], rc |-> CLS_OK]

(* cls_planner_remove_goal: the first match is closed up by memmove. *)
cls_planner_remove_goal(p, goal_id) ==
  LET i == get_goal_from(p, goal_id, 1)
  IN IF i = 0 THEN [planner |-> p, rc |-> CLS_ERR_NOT_FOUND, idx |-> 0]
     ELSE [planner |-> [p EXCEPT !.goals =
                          SubSeq(@, 1, i - 1) \o SubSeq(@, i + 1, Len(@))],
           rc |-> CLS_OK, idx |-> i]

(* Mutant of cls_planner_update_goal: achieved only above 1.0. *)
cls_planner_update_goal_above_one(p, goal_id, progress) ==
  LET i == cls_planner_get_goal(p, goal_id)
  IN IF i = 0 THEN [planner |-> p, rc |-> CLS_ERR_NOT_FOUND, idx |-> 0]
     ELSE [planner |-> [p EXCEPT !.goals[i].progress = progress,
                                 !.goals[i].achieved =
                                    IF progress > One THEN TRUE ELSE @],
           rc |-> CLS_OK, idx |-> i]

(* cls_planner_update_goal: progress stored as given; achieved set at      *)
(* progress >= 1.0f and never cleared.                                     *)
cls_planner_update_goal(p, goal_id, progress) ==
  LET i == cls_planner_get_goal(p, goal_id)
  IN IF i = 0 THEN [planner |-> p, rc |-> CLS_ERR_NOT_FOUND, idx |-> 0]
     ELSE [planner |-> [p EXCEPT !.goals[i].progress = progress,
                                 !.goals[i].achieved =
                                    IF progress >= One THEN TRUE ELSE @],
           rc |-> CLS_OK, idx |-> i]

plan_count(p) == Len(p.plans)

(* The task generate builds from one decision; dep_count = Len(depends_on). *)
task_of_decision(d, task_id) ==
  [task_id |-> task_id,
   action_id |-> d.action_id,
   priority |-> CLS_CLAMP(d.priority \div 25, 0, 3),
   status |-> CLS_PLAN_PENDING,
   cost_estimate |-> One - d.confidence,
   reward_estimate |-> d.confidence,
   depends_on |-> <<>>]

(* Mutant of low_confidence: a decision at exactly 0.1 is dropped too. *)
low_confidence_inclusive(d) == d.confidence <= MinConfidence

(* The filter of generate: decisions[i].confidence < 0.1f *)
low_confidence(d) == d.confidence < MinConfidence

(* The loop of generate over decisions[i..], appending to plan. *)
RECURSIVE generate_tasks(_, _, _)
generate_tasks(decisions, i, plan) ==
  IF i > Len(decisions) THEN plan
  ELSE IF low_confidence(decisions[i])
    THEN generate_tasks(decisions, i + 1, plan)
  ELSE
    LET task == task_of_decision(decisions[i], Len(plan.tasks) + 1)
    IN generate_tasks(decisions, i + 1,
         [plan EXCEPT !.tasks = Append(@, task),
                      !.total_cost = @ + task.cost_estimate,
                      !.total_reward = @ + task.reward_estimate])

(* Mutant of cls_planner_generate: the plan table is checked before the    *)
(* batch.                                                                  *)
cls_planner_generate_table_first(p, decisions) ==
  IF plan_count(p) >= p.max_plans THEN [planner |-> p, rc |-> CLS_ERR_OVERFLOW]
  ELSE IF Len(decisions) = 0 THEN [planner |-> p, rc |-> CLS_ERR_INVALID]
  ELSE
    LET blank == [plan_id |-> p.plans_generated + 1,
                  status |-> CLS_PLAN_PENDING,
                  tasks |-> <<>>,
                  max_tasks |-> Len(decisions) * 2,
                  total_cost |-> 0,
                  total_reward |-> 0,
                  success_probability |-> [num |-> 0, den |-> 1]]
        filled == generate_tasks(decisions, 1, blank)
        plan == [filled EXCEPT
                   !.success_probability =
                      IF Len(filled.tasks) > 0
                      THEN [num |-> filled.total_reward, den |-> Len(filled.tasks)]
                      ELSE @,
                   !.status = CLS_PLAN_ACTIVE]
    IN [planner |-> [p EXCEPT !.plans = Append(@, plan),
                              !.plans_generated = @ + 1],
        rc |-> CLS_OK]

(* Mutant of cls_planner_generate: the plan is left Pending. *)
cls_planner_generate_left_pending(p, decisions) ==
  IF Len(decisions) = 0 THEN [planner |-> p, rc |-> CLS_ERR_INVALID]
  ELSE IF plan_count(p) >= p.max_plans
    THEN [planner |-> p, rc |-> CLS_ERR_OVERFLOW]
  ELSE
    LET blank == [plan_id |-> p.plans_generated + 1,
                  status |-> CLS_PLAN_PENDING,
                  tasks |-> <<>>,
                  max_tasks |-> Len(decisions) * 2,
                  total_cost |-> 0,
                  total_reward |-> 0,
                  success_probability |-> [num |-> 0, den |-> 1]]
        filled == generate_tasks(decisions, 1, blank)
        plan == [filled EXCEPT
                   !.success_probability =
                      IF Len(filled.tasks) > 0
                      THEN [num |-> filled.total_reward, den |-> Len(filled.tasks)]
                      ELSE @]
    IN [planner |-> [p EXCEPT !.plans = Append(@, plan),
                              !.plans_generated = @ + 1],
        rc |-> CLS_OK]

(* Mutant of cls_planner_generate: the mean is taken over the whole batch, *)
(* dropped decisions included.                                             *)
cls_planner_generate_mean_over_batch(p, decisions) ==
  IF Len(decisions) = 0 THEN [planner |-> p, rc |-> CLS_ERR_INVALID]
  ELSE IF plan_count(p) >= p.max_plans
    THEN [planner |-> p, rc |-> CLS_ERR_OVERFLOW]
  ELSE
    LET blank == [plan_id |-> p.plans_generated + 1,
                  status |-> CLS_PLAN_PENDING,
                  tasks |-> <<>>,
                  max_tasks |-> Len(decisions) * 2,
                  total_cost |-> 0,
                  total_reward |-> 0,
                  success_probability |-> [num |-> 0, den |-> 1]]
        filled == generate_tasks(decisions, 1, blank)
        plan == [filled EXCEPT
                   !.success_probability =
                      [num |-> filled.total_reward, den |-> Len(decisions)],
                   !.status = CLS_PLAN_ACTIVE]
    IN [planner |-> [p EXCEPT !.plans = Append(@, plan),
                              !.plans_generated = @ + 1],
        rc |-> CLS_OK]

(* cls_planner_generate; success_probability = total_reward / task_count   *)
(* is kept as the exact fraction num/den (0/1 when no task survives).      *)
cls_planner_generate(p, decisions) ==
  IF Len(decisions) = 0 THEN [planner |-> p, rc |-> CLS_ERR_INVALID]
  ELSE IF plan_count(p) >= p.max_plans
    THEN [planner |-> p, rc |-> CLS_ERR_OVERFLOW]
  ELSE
    LET blank == [plan_id |-> p.plans_generated + 1,
                  status |-> CLS_PLAN_PENDING,
                  tasks |-> <<>>,
                  max_tasks |-> Len(decisions) * 2,
                  total_cost |-> 0,
                  total_reward |-> 0,
                  success_probability |-> [num |-> 0, den |-> 1]]
        filled == generate_tasks(decisions, 1, blank)
        plan == [filled EXCEPT
                   !.success_probability =
                      IF Len(filled.tasks) > 0
                      THEN [num |-> filled.total_reward, den |-> Len(filled.tasks)]
                      ELSE @,
                   !.status = CLS_PLAN_ACTIVE]
    IN [planner |-> [p EXCEPT !.plans = Append(@, plan),
                              !.plans_generated = @ + 1],
        rc |-> CLS_OK]

(* Mutant of cls_plan_add_task: the capacity test is off by one.           *)
cls_plan_add_task_one_past(plan, task) ==
  IF Len(plan.tasks) > plan.max_tasks THEN [plan |-> plan, rc |-> CLS_ERR_OVERFLOW]
  ELSE [plan |-> [plan EXCEPT !.tasks = Append(@, task),
                              !.total_cost = @ + task.cost_estimate,
                              !.total_reward = @ + task.reward_estimate],
        rc |-> CLS_OK]

(* cls_plan_add_task: append a copy of the caller's task. *)
cls_plan_add_task(plan, task) ==
  IF Len(plan.tasks) >= plan.max_tasks THEN [plan |-> plan, rc |-> CLS_ERR_OVERFLOW]
  ELSE [plan |-> [plan EXCEPT !.tasks = Append(@, task),
                              !.total_cost = @ + task.cost_estimate,
                              !.total_reward = @ + task.reward_estimate],
        rc |-> CLS_OK]

(* Mutant of deps_met: a dependency that names no task of the plan counts  *)
(* as met.                                                                 *)
deps_met_missing_ok(plan, t) ==
  \A d \in 1..Len(t.depends_on) :
    \A j \in 1..Len(plan.tasks) :
      plan.tasks[j].task_id = t.depends_on[d]
        => plan.tasks[j].status = CLS_PLAN_COMPLETE

(* The dependency check of next_task for task t: every depends_on[d] is    *)
(* the task_id of some task of the plan that is Complete.                  *)
deps_met(plan, t) ==
  \A d \in 1..Len(t.depends_on) :
    \E j \in 1..Len(plan.tasks) :
      /\ plan.tasks[j].task_id = t.depends_on[d]
      /\ plan.tasks[j].status = CLS_PLAN_COMPLETE

(* Mutant of better: on equal priority the later task wins. *)
better_or_equal(plan, best, i) ==
  best = 0 \/ plan.tasks[i].priority >= plan.tasks[best].priority

(* "Pick highest priority": task i replaces best (0 for NULL). *)
better(plan, best, i) ==
  best = 0 \/ plan.tasks[i].priority > plan.tasks[best].priority

(* Mutant of next_task_scan: a Failed task is a candidate again.           *)
RECURSIVE next_task_scan_retry(_, _, _)
next_task_scan_retry(plan, i, best) ==
  IF i > Len(plan.tasks) THEN best
  ELSE
    LET t == plan.tasks[i]
    IN IF t.status \notin {CLS_PLAN_PENDING, CLS_PLAN_FAILED}
         THEN next_task_scan_retry(plan, i + 1, best)
       ELSE IF ~deps_met(plan, t) THEN next_task_scan_retry(plan, i + 1, best)
       ELSE IF better(plan, best, i)
         THEN next_task_scan_retry(plan, i + 1, i)
       ELSE next_task_scan_retry(plan, i + 1, best)

(* The scan of next_task from task i on, best = index of the best so far   *)
(* (0 for NULL).                                                           *)
RECURSIVE next_task_scan(_, _, _)
next_task_scan(plan, i, best) ==
  IF i > Len(plan.tasks) THEN best
  ELSE
    LET t == plan.tasks[i]
    IN IF t.status # CLS_PLAN_PENDING THEN next_task_scan(plan, i + 1, best)
       ELSE IF ~deps_met(plan, t) THEN next_task_scan(plan, i + 1, best)
       ELSE IF better(plan, best, i)
         THEN next_task_scan(plan, i + 1, i)
       ELSE next_task_scan(plan, i + 1, best)

(* cls_plan_next_task: idx is the index of *out_task (0: not written). *)
cls_plan_next_task(plan) ==
  LET best == next_task_scan(plan, 1, 0)
  IN IF best = 0 THEN [rc |-> CLS_ERR_NOT_FOUND, idx |-> 0]
     ELSE [rc |-> CLS_OK, idx |-> best]

(* Mutant of rescan_status: a finished plan is Complete whatever failed. *)
rescan_status_no_failure(plan) ==
  LET all_done == \A j \in 1..Len(plan.tasks) :
                    /\ plan.tasks[j].status # CLS_PLAN_PENDING
                    /\ plan.tasks[j].status # CLS_PLAN_ACTIVE
  IN IF all_done THEN CLS_PLAN_COMPLETE ELSE plan.status

(* The re-scan of complete_task: plan status from the task statuses. *)
rescan_status(plan) ==
  LET all_done == \A j \in 1..Len(plan.tasks) :
                    /\ plan.tasks[j].status # CLS_PLAN_PENDING
                    /\ plan.tasks[j].status # CLS_PLAN_ACTIVE
      any_failed == \E j \in 1..Len(plan.tasks) :
                      plan.tasks[j].status = CLS_PLAN_FAILED
  IN IF all_done
     THEN (IF any_failed THEN CLS_PLAN_FAILED ELSE CLS_PLAN_COMPLETE)
     ELSE plan.status

(* Mutant of cls_plan_complete_task: a task that is already Complete or    *)
(* Failed is refused with InvalidState.                                    *)
cls_plan_complete_task_strict(plan, task_id, success) ==
  LET hit == {i \in 1..Len(plan.tasks) : plan.tasks[i].task_id = task_id}
  IN IF hit = {}
     THEN [plan |-> plan, rc |-> CLS_ERR_NOT_FOUND, idx |-> 0, path |-> <<>>]
     ELSE
       LET i == CHOOSE k \in hit : \A j \in hit : k <= j
           status == IF success THEN CLS_PLAN_COMPLETE ELSE CLS_PLAN_FAILED
           marked == [plan EXCEPT !.tasks[i].status = status]
       IN IF plan.tasks[i].status \in {CLS_PLAN_COMPLETE, CLS_PLAN_FAILED}
          THEN [plan |-> plan, rc |-> CLS_ERR_STATE, idx |-> i, path |-> <<>>]
          ELSE [plan |-> [marked EXCEPT !.status = rescan_status(marked)],
                rc |-> CLS_OK, idx |-> i,
                path |-> <<status>>]

(* cls_plan_complete_task: the first task with task_id; idx is its index,  *)
(* path the statuses written to it, in order.                              *)
cls_plan_complete_task(plan, task_id, success) ==
  LET hit == {i \in 1..Len(plan.tasks) : plan.tasks[i].task_id = task_id}
  IN IF hit = {}
     THEN [plan |-> plan, rc |-> CLS_ERR_NOT_FOUND, idx |-> 0, path |-> <<>>]
     ELSE
       LET i == CHOOSE k \in hit : \A j \in hit : k <= j
           status == IF success THEN CLS_PLAN_COMPLETE ELSE CLS_PLAN_FAILED
           marked == [plan EXCEPT !.tasks[i].status = status]
       IN [plan |-> [marked EXCEPT !.status = rescan_status(marked)],
           rc |-> CLS_OK, idx |-> i,
           path |-> <<status>>]

(* cls_decision_t fallback_decisions[64] *)
MaxFallback == 64

(* reward_estimate * 0.8f, in ten-thousandths (exact on the values the     *)
(* inputs below and MaxPlans - 1 chained replans produce).                 *)
discount(x) == (x * 4) \div 5

(* The decision replan synthesizes from task t: the task's priority level  *)
(* is stored as the decision's priority.                                   *)
decision_of_task(t) ==
  [action_id |-> t.action_id,
   confidence |-> discount(t.reward_estimate),
   priority |-> t.priority]

(* Mutant of incomplete: only Failed tasks are collected. *)
incomplete_failed_only(t) == t.status = CLS_PLAN_FAILED

(* The tasks replan collects: Pending or Failed. *)
incomplete(t) == t.status = CLS_PLAN_PENDING \/ t.status = CLS_PLAN_FAILED

(* The collecting loop of replan from task i on; acc is                    *)
(* fallback_decisions[0..remaining-1].                                     *)
RECURSIVE collect_fallback(_, _, _)
collect_fallback(plan, i, acc) ==
  IF i > Len(plan.tasks) \/ Len(acc) >= MaxFallback THEN acc
  ELSE IF incomplete(plan.tasks[i])
    THEN collect_fallback(plan, i + 1, Append(acc, decision_of_task(plan.tasks[i])))
  ELSE collect_fallback(plan, i + 1, acc)

(* Mutant of cls_planner_replan: failed_plan is cancelled before the       *)
(* batch is looked at.                                                     *)
cls_planner_replan_cancel_first(p, k) ==
  LET batch == collect_fallback(p.plans[k], 1, <<>>)
      cancelled == [p EXCEPT !.plans[k].status = CLS_PLAN_CANCELLED]
  IN IF Len(batch) = 0
     THEN [planner |-> cancelled, rc |-> CLS_ERR_NOT_FOUND, batch |-> batch]
     ELSE LET r == cls_planner_generate(cancelled, batch)
          IN [planner |-> r.planner, rc |-> r.rc, batch |-> batch]

(* cls_planner_replan on failed_plan = plans[k]; batch is the synthesized  *)
(* fallback_decisions.                                                     *)
cls_planner_replan(p, k) ==
  LET batch == collect_fallback(p.plans[k], 1, <<>>)
  IN IF Len(batch) = 0
     THEN [planner |-> p, rc |-> CLS_ERR_NOT_FOUND, batch |-> batch]
     ELSE LET cancelled == [p EXCEPT !.plans[k].status = CLS_PLAN_CANCELLED]
              r == cls_planner_generate(cancelled, batch)
          IN [planner |-> r.planner, rc |-> r.rc, batch |-> batch]

(* Mutant of cls_planner_evaluate: the evaluation is counted in the        *)
(* planner.                                                                *)
cls_planner_evaluate_counted(p, plan) ==
  [planner |-> [p EXCEPT !.plans_generated = @ + 1],
   rc |-> CLS_OK,
   expected_utility |-> plan.total_reward - plan.total_cost,
   resource_cost |-> plan.total_cost,
   feasible |-> /\ Len(plan.tasks) > 0
                /\ plan.success_probability.num * 10
                     > 3 * One * plan.success_probability.den,
   time_estimate_us |-> Len(plan.tasks) * 10000]

(* cls_planner_evaluate: planner is the planner as the call leaves it      *)
(* (the parameter is unused); feasible is task_count > 0 &&               *)
(* success_probability > 0.3f on the fraction num/den; risk_score is       *)
(* 1 - success_probability and is not carried.                             *)
cls_planner_evaluate(p, plan) ==
  [planner |-> p,
   rc |-> CLS_OK,
   expected_utility |-> plan.total_reward - plan.total_cost,
   resource_cost |-> plan.total_cost,
   feasible |-> /\ Len(plan.tasks) > 0
                /\ plan.success_probability.num * 10
                     > 3 * One * plan.success_probability.den,
   time_estimate_us |-> Len(plan.tasks) * 10000]

(* Mutant of cls_action_execute_task: the result of a failed lookup is     *)
(* returned at once, the task left Active.                                 *)
cls_action_execute_task_early_return(e, task, result) ==
  LET active == [task EXCEPT !.status = CLS_PLAN_ACTIVE]
      run == cls_action_execute(e, active.action_id, result)
      final == IF CLS_IS_OK(run.rc) THEN CLS_PLAN_COMPLETE ELSE CLS_PLAN_FAILED
  IN IF run.calls = 0
     THEN [exec |-> run.exec, task |-> active,
           rc |-> run.rc, record |-> run.record, calls |-> run.calls,
           path |-> <<active.status>>]
     ELSE [exec |-> run.exec,
           task |-> [active EXCEPT !.status = final],
           rc |-> run.rc, record |-> run.record, calls |-> run.calls,
           path |-> <<active.status, final>>]

(* cls_action_execute_task: Active, then cls_action_execute, then Complete *)
(* or Failed by its status; path is the statuses written to the task, in   *)
(* order.                                                                  *)
cls_action_execute_task(e, task, result) ==
  LET active == [task EXCEPT !.status = CLS_PLAN_ACTIVE]
      run == cls_action_execute(e, active.action_id, result)
      final == IF CLS_IS_OK(run.rc) THEN CLS_PLAN_COMPLETE ELSE CLS_PLAN_FAILED
  IN [exec |-> run.exec,
      task |-> [active EXCEPT !.status = final],
      rc |-> run.rc, record |-> run.record, calls |-> run.calls,
      path |-> <<active.status, final>>]

(***************************************************************************)
(* Inputs of the operations                                                *)
(***************************************************************************)

ActionIds == {1, 2}

(* What a handler's execute_fn / rollback_fn may return. *)
HandlerResults == {CLS_OK, CLS_ERR_NOT_FOUND}
RollbackResults == {CLS_OK, CLS_ERR_INTERNAL}

(* Handlers offered to register: 1 with a rollback_fn, 2 without, and one  *)
(* with a NULL execute_fn.                                                 *)
HandlerInputs ==
  {[action_id |-> 1, has_execute |-> TRUE, has_rollback |-> TRUE],
   [action_id |-> 2, has_execute |-> TRUE, has_rollback |-> FALSE],
   [action_id |-> 2, has_execute |-> FALSE, has_rollback |-> FALSE]}

(* exec_ids asked of rollback / get_record: 0 is never assigned, the      *)
(* others are assigned one by one.                                         *)
ExecIds == 0..MaxExecs

(* Decisions: confidence in 1/10000, priority    on the 0..100 scale: one   *)
(* per case of generate (kept, kept at exactly 0.1, dropped below 0.1,     *)
(* priority above the clamp, an action no handler is registered for).      *)
Decisions ==
  {[action_id |-> 1, confidence |-> 9000, priority |-> 100],
   [action_id |-> 2, confidence |-> 1000, priority |-> 40],
   [action_id |-> 2, confidence |-> 500, priority |-> 80]}

(* Batches of 0..MaxBatch decisions. *)
Batches == UNION {[1..n -> Decisions] : n \in 0..MaxBatch}

(* The batch given to generate where replan is exercised: a decision that *)
(* survives the discount of replan and one that does not.                  *)
ReplanBatches ==
  {<<[action_id |-> 1, confidence |-> 9000, priority |-> 100],
     [action_id |-> 2, confidence |-> 1000, priority |-> 40]>>}

(* The task ids of those batches' plans. *)
ReplanTaskIds == {1, 2}

(* Tasks offered to add_task, all Pending: a task 2 that depends on task   *)
(* 1, a task 1 that depends on task 2, and a task 2 that depends on task 1 *)
(* and on itself. Whether an id names a task depends on the plan.          *)
TaskInputs ==
  {[task_id |-> t[1], action_id |-> 1, priority |-> 2,
    status |-> CLS_PLAN_PENDING, cost_estimate |-> 5000,
    reward_estimate |-> 5000,
    depends_on |-> t[2]] :
     t \in {<<2, <<1>>>>, <<1, <<2>>>>, <<2, <<1, 2>>>>}}

(* The callers of cls_action_execute that run against one executor at the *)
(* same time, and the locals of a caller that has not called yet: pc (the  *)
(* next step), action_id, exec_id (rec.exec_id), result (what the call     *)
(* returns), calls (handler invocations), loaded (the value the last read  *)
(* of a shared field gave), idx (of record_action).                        *)
Threads == {1, 2}

IdleThread ==
  [pc |-> "idle", action_id |-> 0, exec_id |-> 0, result |-> 0, calls |-> 0,
   loaded |-> 0, idx |-> 0]

NoThreads == [t \in Threads |-> IdleThread]

(* Goals offered to add_goal: fresh (no progress, not achieved), with one   *)
(* more goal_id than the table holds goals; the progress values given to   *)
(* update_goal: below 1.0 and exactly 1.0.                                 *)
GoalIds == 1..(MaxGoals + 1)

GoalInputs ==
  {[goal_id |-> g, priority |-> 2, progress |-> 0, achieved |-> FALSE] :
     g \in GoalIds}

ProgressValues == {5000, One}

(* task ids asked of complete_task, task indexes asked of execute_task *)
TaskIds == 1..MaxTasks

(***************************************************************************)
(* State: planner and exec are the two contexts; rolled is the set of      *)
(* exec_ids whose rollback returned OK; last is what the most recent call  *)
(* was given and returned: op, the return code rc, the plan (index), arg   *)
(* (action_id, exec_id, task_id or decision_count), flag (what the handler *)
(* returned, the success flag, or 1 for a non-null execute_fn), calls      *)
(* (handler invocations), record (the out record), idx (index of the task  *)
(* returned or changed), path (the statuses written to that task, in       *)
(* order), batch (the decisions of an accepted generate). thread holds,    *)
(* for each caller of a cls_action_execute that runs step by step, where   *)
(* it is in the function and its locals.                                   *)
(***************************************************************************)

Obs(op, rc, plan, arg, flag, calls, record, idx, path) ==
  [op |-> op, rc |-> rc, plan |-> plan, arg |-> arg, flag |-> flag,
   calls |-> calls, record |-> record, idx |-> idx, path |-> path,
   batch |-> <<>>]

NoCall == Obs("none", CLS_OK, 0, 0, 0, 0, ZeroRecord, 0, <<>>)

(* ---- executor operations ---- *)

Register(h) ==
  LET r == cls_action_register(exec, h)
  IN /\ exec' = r.exec
     /\ last' = Obs("register", r.rc, 0, h.action_id,
                    IF h.has_execute THEN 1 ELSE 0, 0, ZeroRecord, 0, <<>>)
     /\ UNCHANGED <<planner, rolled, thread, agent>>

Unregister(a) ==
  LET r == cls_action_unregister(exec, a)
  IN /\ exec' = r.exec
     /\ last' = Obs("unregister", r.rc, 0, a, 0, 0, ZeroRecord, 0, <<>>)
     /\ UNCHANGED <<planner, rolled, thread, agent>>

Execute(a, result) ==
  /\ exec.next_exec_id <= MaxExecs
  /\ LET r == cls_action_execute(exec, a, result)
     IN /\ exec' = r.exec
        /\ last' = Obs("execute", r.rc, 0, a,
                       IF r.calls = 0 THEN 0 ELSE result, r.calls, r.record, 0, <<>>)
  /\ UNCHANGED <<planner, rolled, thread, agent>>

Rollback(id, result) ==
  LET r == cls_action_rollback(exec, id, result)
  IN /\ exec' = r.exec
     /\ last' = Obs("rollback", r.rc, 0, id,
                    IF r.calls = 0 THEN 0 ELSE result, r.calls, ZeroRecord, 0, <<>>)
     /\ rolled' = IF CLS_IS_OK(r.rc) THEN rolled \cup {id} ELSE rolled
     /\ UNCHANGED <<planner, thread, agent>>

GetRecord(id) ==
  LET r == cls_action_get_record(exec, id)
  IN /\ last' = Obs("get_record", r.rc, 0, id, 0, 0, r.record, 0, <<>>)
     /\ UNCHANGED <<planner, exec, rolled, thread, agent>>

(* ---- planner operations ---- *)

(* cls_action_execute by caller t, one read or write of the executor per   *)
(* step; the other caller may take steps in between.                       *)
Local(t, upd) == thread' = [thread EXCEPT ![t] = upd]

(* lines 85-86: find_handler; NotFound returns at once. *)
ConcFind(t, a) ==
  /\ thread[t].pc = "idle"
  /\ IF find_handler(exec, a) = 0
     THEN Local(t, [thread[t] EXCEPT !.pc = "return", !.action_id = a,
                                     !.result = CLS_ERR_NOT_FOUND])
     ELSE Local(t, [thread[t] EXCEPT !.pc = "load_id", !.action_id = a])
  /\ UNCHANGED <<planner, exec, last, rolled, agent>>

(* line 90, read: rec.exec_id = exec->next_exec_id *)
ConcLoadId(t) ==
  /\ thread[t].pc = "load_id"
  /\ Local(t, [thread[t] EXCEPT !.pc = "store_id",
                                !.exec_id = exec.next_exec_id,
                                !.loaded = exec.next_exec_id])
  /\ UNCHANGED <<planner, exec, last, rolled, agent>>

(* line 90, write: exec->next_exec_id = loaded + 1 *)
ConcStoreId(t) ==
  /\ thread[t].pc = "store_id"
  /\ exec' = store_exec_id(exec, thread[t].loaded)
  /\ Local(t, [thread[t] EXCEPT !.pc = "handler"])
  /\ UNCHANGED <<planner, last, rolled, agent>>

(* line 96: the handler runs and returns result *)
ConcHandler(t, result) ==
  /\ thread[t].pc = "handler"
  /\ Local(t, [thread[t] EXCEPT !.pc = "load_outcome", !.result = result,
                                !.calls = 1])
  /\ UNCHANGED <<planner, exec, last, rolled, agent>>

(* lines 101-106, read of total_success or total_failed *)
ConcLoadOutcome(t) ==
  /\ thread[t].pc = "load_outcome"
  /\ Local(t, [thread[t] EXCEPT !.pc = "store_outcome",
                                !.loaded = IF CLS_IS_OK(thread[t].result)
                                           THEN exec.total_success
                                           ELSE exec.total_failed])
  /\ UNCHANGED <<planner, exec, last, rolled, agent>>

(* lines 101-106, write *)
ConcStoreOutcome(t) ==
  /\ thread[t].pc = "store_outcome"
  /\ exec' = store_outcome_count(exec, thread[t].result, thread[t].loaded)
  /\ Local(t, [thread[t] EXCEPT !.pc = "load_executed"])
  /\ UNCHANGED <<planner, last, rolled, agent>>

(* line 109, read of total_executed *)
ConcLoadExecuted(t) ==
  /\ thread[t].pc = "load_executed"
  /\ Local(t, [thread[t] EXCEPT !.pc = "store_executed",
                                !.loaded = exec.total_executed])
  /\ UNCHANGED <<planner, exec, last, rolled, agent>>

(* line 109, write *)
ConcStoreExecuted(t) ==
  /\ thread[t].pc = "store_executed"
  /\ exec' = store_total_executed(exec, thread[t].loaded)
  /\ Local(t, [thread[t] EXCEPT !.pc = "load_index"])
  /\ UNCHANGED <<planner, last, rolled, agent>>

(* record_action line 74: idx = history_count % max_history *)
ConcLoadIndex(t) ==
  /\ thread[t].pc = "load_index"
  /\ Local(t, [thread[t] EXCEPT !.pc = "store_history",
                                !.idx = exec.history_count % exec.max_history])
  /\ UNCHANGED <<planner, exec, last, rolled, agent>>

(* record_action line 75 *)
ConcStoreHistory(t) ==
  /\ thread[t].pc = "store_history"
  /\ exec' = store_history(exec, thread[t].idx,
               execute_record(thread[t].exec_id, thread[t].action_id,
                              thread[t].result))
  /\ Local(t, [thread[t] EXCEPT !.pc = "load_history_count"])
  /\ UNCHANGED <<planner, last, rolled, agent>>

(* record_action line 76, read of history_count *)
ConcLoadHistoryCount(t) ==
  /\ thread[t].pc = "load_history_count"
  /\ Local(t, [thread[t] EXCEPT !.pc = "store_history_count",
                                !.loaded = exec.history_count])
  /\ UNCHANGED <<planner, exec, last, rolled, agent>>

(* record_action line 76, test and write *)
ConcStoreHistoryCount(t) ==
  /\ thread[t].pc = "store_history_count"
  /\ exec' = store_history_count(exec, thread[t].loaded)
  /\ Local(t, [thread[t] EXCEPT !.pc = "return"])
  /\ UNCHANGED <<planner, last, rolled, agent>>

(* lines 86 and 111-113: *record = rec; return *)
ConcReturn(t) ==
  /\ thread[t].pc = "return"
  /\ Local(t, [thread[t] EXCEPT !.pc = "done"])
  /\ last' = Obs("execute", thread[t].result, 0, thread[t].action_id,
                 IF thread[t].calls = 0 THEN 0 ELSE thread[t].result,
                 thread[t].calls,
                 IF thread[t].calls = 0 THEN ZeroRecord
                 ELSE execute_record(thread[t].exec_id, thread[t].action_id,
                                     thread[t].result),
                 0, <<>>)
  /\ UNCHANGED <<planner, exec, rolled, agent>>

(* A full plan table rejects the batch before reading a decision: the      *)
(* batches of one repeated decision stand for all of their length.         *)
Generate(decisions) ==
  LET r == cls_planner_generate(planner, decisions)
  IN /\ \/ plan_count(planner) < planner.max_plans
        \/ \A i \in 1..Len(decisions) : decisions[i] = decisions[1]
     /\ planner' = r.planner
     /\ last' = [Obs("generate", r.rc,
                     IF CLS_IS_OK(r.rc) THEN Len(r.planner.plans) ELSE 0,
                     Len(decisions), 0, 0, ZeroRecord, 0, <<>>)
                   EXCEPT !.batch = IF CLS_IS_OK(r.rc) THEN decisions ELSE <<>>]
     /\ UNCHANGED <<exec, rolled, thread, agent>>

AddTask(p, task) ==
  /\ p \in 1..Len(planner.plans)
  /\ \/ Len(planner.plans[p].tasks) < MaxTasks
     \/ Len(planner.plans[p].tasks) >= planner.plans[p].max_tasks
  /\ LET r == cls_plan_add_task(planner.plans[p], task)
     IN /\ planner' = [planner EXCEPT !.plans[p] = r.plan]
        /\ last' = Obs("add_task", r.rc, p, task.task_id, 0, 0, ZeroRecord, 0, <<>>)
  /\ UNCHANGED <<exec, rolled, thread, agent>>

NextTask(p) ==
  /\ p \in 1..Len(planner.plans)
  /\ LET r == cls_plan_next_task(planner.plans[p])
     IN last' = Obs("next_task", r.rc, p, 0, 0, 0, ZeroRecord, r.idx, <<>>)
  /\ UNCHANGED <<planner, exec, rolled, thread, agent>>

ExecuteTaskCall(p, i, result) ==
  /\ p \in 1..Len(planner.plans)
  /\ i \in 1..Len(planner.plans[p].tasks)
  /\ LET r == cls_action_execute_task(exec, planner.plans[p].tasks[i], result)
     IN /\ exec' = r.exec
        /\ planner' = [planner EXCEPT !.plans[p].tasks[i] = r.task]
        /\ last' = Obs("execute_task", r.rc, p, planner.plans[p].tasks[i].task_id,
                       IF r.calls = 0 THEN 0 ELSE result, r.calls, r.record, i, r.path)
  /\ UNCHANGED <<rolled, thread, agent>>

(* execute_task called at any time, at most MaxTaskExecs executions. *)
ExecuteTask(p, i, result) ==
  /\ exec.next_exec_id <= MaxTaskExecs
  /\ ExecuteTaskCall(p, i, result)

CompleteTask(p, task_id, success) ==
  /\ p \in 1..Len(planner.plans)
  /\ LET r == cls_plan_complete_task(planner.plans[p], task_id, success)
     IN /\ planner' = [planner EXCEPT !.plans[p] = r.plan]
        /\ last' = Obs("complete_task", r.rc, p, task_id,
                       IF r.idx > 0 /\ success THEN 1 ELSE 0, 0, ZeroRecord,
                       r.idx, r.path)
  /\ UNCHANGED <<exec, rolled, thread, agent>>

(* idx is the index of the plan replan created (0: none); batch the        *)
(* decisions it synthesized.                                               *)
Replan(p) ==
  /\ p \in 1..Len(planner.plans)
  /\ LET r == cls_planner_replan(planner, p)
     IN /\ planner' = r.planner
        /\ last' = [Obs("replan", r.rc, p, Len(r.batch), 0, 0, ZeroRecord,
                        IF CLS_IS_OK(r.rc) THEN Len(r.planner.plans) ELSE 0, <<>>)
                      EXCEPT !.batch = r.batch]
  /\ UNCHANGED <<exec, rolled, thread, agent>>

(* arg is expected_utility, flag is feasible, idx is time_estimate_us. *)
Evaluate(p) ==
  /\ p \in 1..Len(planner.plans)
  /\ LET r == cls_planner_evaluate(planner, planner.plans[p])
     IN /\ planner' = r.planner
        /\ last' = Obs("evaluate", r.rc, p, r.expected_utility,
                       IF r.feasible THEN 1 ELSE 0, 0, ZeroRecord,
                       r.time_estimate_us, <<>>)
  /\ UNCHANGED <<exec, rolled, thread, agent>>

(* rc is the count returned. *)
HistoryCount ==
  /\ last' = Obs("history_count", cls_action_history_count(exec), 0, 0, 0, 0,
                 ZeroRecord, 0, <<>>)
  /\ UNCHANGED <<planner, exec, rolled, thread, agent>>

(* path is the four out values. *)
Stats ==
  /\ last' = Obs("stats", CLS_OK, 0, 0, 0, 0, ZeroRecord, 0, cls_action_stats(exec))
  /\ UNCHANGED <<planner, exec, rolled, thread, agent>>

AddGoal(goal) ==
  LET r == cls_planner_add_goal(planner, goal)
  IN /\ planner' = r.planner
     /\ last' = Obs("add_goal", r.rc, 0, goal.goal_id, 0, 0, ZeroRecord, 0, <<>>)
     /\ UNCHANGED <<exec, rolled, thread, agent>>

RemoveGoal(goal_id) ==
  LET r == cls_planner_remove_goal(planner, goal_id)
  IN /\ planner' = r.planner
     /\ last' = Obs("remove_goal", r.rc, 0, goal_id, 0, 0, ZeroRecord, r.idx, <<>>)
     /\ UNCHANGED <<exec, rolled, thread, agent>>

UpdateGoal(goal_id, progress) ==
  LET r == cls_planner_update_goal(planner, goal_id, progress)
  IN /\ planner' = r.planner
     /\ last' = Obs("update_goal", r.rc, 0, goal_id, progress, 0, ZeroRecord,
                    r.idx, <<>>)
     /\ UNCHANGED <<exec, rolled, thread, agent>>

(***************************************************************************)
(* The agent core (cls_agent.c)                                            *)
(***************************************************************************)

(* ---- cls_agent_state_t ---- *)
CLS_STATE_INIT == 0
CLS_STATE_READY == 1

(* The fields of cls_agent_t the lifecycle reads or writes.  log_fn is     *)
(* "null", "default" (cls_default_log) or "custom".  The subsystem         *)
(* pointers, the copied configuration and the clock readings (uptime_us,   *)
(* last_step_us) are left out: no lifecycle operation branches on them.    *)
(* NoAgent is the zeroed object.                                           *)
NoAgent ==
  [state |-> CLS_STATE_INIT, cycle_count |-> 0, initialized |-> FALSE,
   shutting_down |-> FALSE, log_fn |-> "null"]

(* has_cfg is FALSE for a null configuration, which is rejected before the *)
(* object is touched.  outcome is the status of the first allocation or    *)
(* subsystem initialisation that fails, CLS_OK when none does; a failure   *)
(* returns after the memset and the two assignments that follow it.        *)
cls_agent_init(a, has_cfg, outcome) ==
  IF ~has_cfg THEN [agent |-> a, rc |-> CLS_ERR_INVALID]
  ELSE IF outcome # CLS_OK
    THEN [agent |-> [NoAgent EXCEPT !.log_fn = "default"], rc |-> outcome]
  ELSE [agent |-> [state |-> CLS_STATE_READY, cycle_count |-> 0,
                   initialized |-> TRUE, shutting_down |-> FALSE,
                   log_fn |-> "default"],
        rc |-> CLS_OK]

cls_agent_step_frozen(a) ==
  [agent |-> [a EXCEPT !.state = CLS_STATE_READY], rc |-> CLS_OK]

(* The step passes through ACTIVE and PLANNING and ends in READY; the      *)
(* results of the sensor poll and of the prune are only logged.            *)
cls_agent_step_ready(a) ==
  [agent |-> [a EXCEPT !.state = CLS_STATE_READY,
                       !.cycle_count = a.cycle_count + 1],
   rc |-> CLS_OK]

cls_agent_step(a) ==
  IF ~a.initialized THEN [agent |-> a, rc |-> CLS_ERR_STATE]
  ELSE IF a.shutting_down THEN [agent |-> a, rc |-> CLS_ERR_STATE]
  ELSE cls_agent_step_ready(a)

cls_agent_shutdown(a) ==
  IF ~a.initialized THEN [agent |-> a, rc |-> CLS_ERR_STATE]
  ELSE [agent |-> [a EXCEPT !.shutting_down = TRUE, !.state = CLS_STATE_INIT],
        rc |-> CLS_OK]

cls_agent_get_state(a) == a.state

cls_agent_set_logger(a, fn) == [a EXCEPT !.log_fn = fn]

(* The cycles out value; the uptime is a clock reading. *)
cls_agent_stats(a) == a.cycle_count

(* ---- agent operations ---- *)

(* flag is 1 when a configuration was passed, arg the outcome drawn for    *)
(* the allocations and subsystem initialisations.                          *)
AgentInit(has_cfg, outcome) ==
  LET r == cls_agent_init(agent, has_cfg, outcome)
  IN /\ agent' = r.agent
     /\ last' = Obs("agent_init", r.rc, 0, outcome, IF has_cfg THEN 1 ELSE 0,
                    0, ZeroRecord, 0, <<>>)
     /\ UNCHANGED <<planner, exec, rolled, thread>>

(* idx is cycle_count as the call found it. *)
AgentStep ==
  LET r == cls_agent_step(agent)
  IN /\ r.agent.cycle_count <= MaxCycles
     /\ agent' = r.agent
     /\ last' = Obs("agent_step", r.rc, 0, 0, 0, 0, ZeroRecord,
                    agent.cycle_count, <<>>)
     /\ UNCHANGED <<planner, exec, rolled, thread>>

AgentShutdown ==
  LET r == cls_agent_shutdown(agent)
  IN /\ agent' = r.agent
     /\ last' = Obs("agent_shutdown", r.rc, 0, 0, 0, 0, ZeroRecord, 0, <<>>)
     /\ UNCHANGED <<planner, exec, rolled, thread>>

(* idx is the state returned. *)
AgentGetState ==
  /\ last' = Obs("agent_get_state", CLS_OK, 0, 0, 0, 0, ZeroRecord,
                 cls_agent_get_state(agent), <<>>)
  /\ UNCHANGED <<planner, exec, rolled, thread, agent>>

(* idx is the cycles out value. *)
AgentStats ==
  /\ last' = Obs("agent_stats", CLS_OK, 0, 0, 0, 0, ZeroRecord,
                 cls_agent_stats(agent), <<>>)
  /\ UNCHANGED <<planner, exec, rolled, thread, agent>>

(* flag is 1 for a logger function, 0 for a null pointer. *)
AgentSetLogger(fn) ==
  /\ agent' = cls_agent_set_logger(agent, fn)
  /\ last' = Obs("agent_set_logger", CLS_OK, 0, 0,
                 IF fn = "null" THEN 0 ELSE 1, 0, ZeroRecord, 0, <<>>)
  /\ UNCHANGED <<planner, exec, rolled, thread>>

(***************************************************************************)
(* Specifications                                                          *)
(***************************************************************************)

(* The executor alone: a fresh executor of MaxHandlers handler slots and   *)
(* MaxHistory history slots.                                               *)
InitExec ==
  /\ planner = cls_planner_init(1, 1)
  /\ exec = cls_action_init(MaxHandlers, MaxHistory)
  /\ last = NoCall
  /\ rolled = {}
  /\ thread = NoThreads
  /\ agent = NoAgent

NextExec ==
  \/ \E h \in HandlerInputs : Register(h)
  \/ \E a \in ActionIds : Unregister(a)
  \/ \E a \in ActionIds, r \in HandlerResults : Execute(a, r)
  \/ \E id \in ExecIds, r \in RollbackResults : Rollback(id, r)
  \/ \E id \in ExecIds : GetRecord(id)

SpecExec == InitExec /\ [][NextExec]_vars

(* The registry alone, with one more action_id than max_handlers so that a *)
(* full registry meets an action_id it does not hold.                      *)
RegisterIds == 1..(MaxHandlers + 1)

RegisterInputs ==
  HandlerInputs \cup
    {[action_id |-> a, has_execute |-> TRUE, has_rollback |-> FALSE] :
       a \in RegisterIds}

NextReg ==
  \/ \E h \in RegisterInputs : Register(h)
  \/ \E a \in RegisterIds : Unregister(a)
  \/ \E a \in ActionIds : Execute(a, CLS_OK)

SpecReg == InitExec /\ [][NextReg]_vars

(* Two callers, each making one cls_action_execute call on the same        *)
(* executor, with no lock around the calls. Action 1 is registered, action *)
(* 2 is not.                                                               *)
SharedExec ==
  cls_action_register(cls_action_init(1, MaxHistory),
    [action_id |-> 1, has_execute |-> TRUE, has_rollback |-> TRUE]).exec

InitConc ==
  /\ planner = cls_planner_init(1, 1)
  /\ exec = SharedExec
  /\ last = NoCall
  /\ rolled = {}
  /\ thread = NoThreads
  /\ agent = NoAgent

NextConc ==
  \/ \E t \in Threads, a \in ActionIds : ConcFind(t, a)
  \/ \E t \in Threads : ConcLoadId(t)
  \/ \E t \in Threads : ConcStoreId(t)
  \/ \E t \in Threads, r \in HandlerResults : ConcHandler(t, r)
  \/ \E t \in Threads : ConcLoadOutcome(t)
  \/ \E t \in Threads : ConcStoreOutcome(t)
  \/ \E t \in Threads : ConcLoadExecuted(t)
  \/ \E t \in Threads : ConcStoreExecuted(t)
  \/ \E t \in Threads : ConcLoadIndex(t)
  \/ \E t \in Threads : ConcStoreHistory(t)
  \/ \E t \in Threads : ConcLoadHistoryCount(t)
  \/ \E t \in Threads : ConcStoreHistoryCount(t)
  \/ \E t \in Threads : ConcReturn(t)

SpecConc == InitConc /\ [][NextConc]_vars

(* The goal table alone, of MaxGoals goals. *)
InitGoal ==
  /\ planner = cls_planner_init(1, MaxGoals)
  /\ exec = cls_action_init(1, 1)
  /\ last = NoCall
  /\ rolled = {}
  /\ thread = NoThreads
  /\ agent = NoAgent

NextGoal ==
  \/ \E g \in GoalInputs : AddGoal(g)
  \/ \E id \in GoalIds : RemoveGoal(id)
  \/ \E id \in GoalIds, x \in ProgressValues : UpdateGoal(id, x)

SpecGoal == InitGoal /\ [][NextGoal]_vars

(* The planner driving an executor on which action 1 is registered and     *)
(* action 2 is not.                                                        *)
InitPlan ==
  /\ planner = cls_planner_init(1, 1)
  /\ exec = cls_action_register(cls_action_init(1, 1),
               [action_id |-> 1, has_execute |-> TRUE, has_rollback |-> TRUE]).exec
  /\ last = NoCall
  /\ rolled = {}
  /\ thread = NoThreads
  /\ agent = NoAgent

NextPlan ==
  \/ \E b \in Batches : Generate(b)
  \/ \E p \in {1}, t \in TaskInputs : AddTask(p, t)
  \/ \E p \in {1} : NextTask(p)
  \/ \E p \in {1}, i \in TaskIds, r \in HandlerResults : ExecuteTask(p, i, r)
  \/ \E p \in {1}, id \in TaskIds, s \in BOOLEAN : CompleteTask(p, id, s)

SpecPlan == InitPlan /\ [][NextPlan]_vars

(* The read accessors among the calls that change a plan and the          *)
(* executor: one plan, action 1 registered; get_record is asked for the    *)
(* exec_ids execute_task can have assigned and for one more.               *)
ReadExecIds == 1..(MaxTaskExecs + 1)

NextRead ==
  \/ \E b \in Batches : Generate(b)
  \/ \E i \in TaskIds, r \in HandlerResults : ExecuteTask(1, i, r)
  \/ \E id \in TaskIds, ok \in BOOLEAN : CompleteTask(1, id, ok)
  \/ NextTask(1)
  \/ Evaluate(1)
  \/ \E id \in ReadExecIds : GetRecord(id)
  \/ HistoryCount
  \/ Stats

SpecRead == InitPlan /\ [][NextRead]_vars

(* The owning loop. A plan is set up by one accepted generate and any      *)
(* add_task calls; then the caller repeats next_task, execute_task on the  *)
(* task returned and complete_task with that task's id and the outcome of  *)
(* the execution, and on NotFound may replan and go on with the new plan.  *)
(* The position in the loop is the call made last. Action 1 is registered, *)
(* action 2 is not. add_task is also offered a task 1 that depends on task *)
(* 1 and a task 1 without dependencies.                                    *)
LoopTaskInputs ==
  TaskInputs \cup
    {[task_id |-> 1, action_id |-> 1, priority |-> 2,
      status |-> CLS_PLAN_PENDING, cost_estimate |-> 5000,
      reward_estimate |-> 5000, depends_on |-> deps] :
       deps \in {<<1>>, <<>>}}

InitLoop ==
  /\ planner = cls_planner_init(MaxPlans, 1)
  /\ exec = cls_action_register(cls_action_init(1, 1),
               [action_id |-> 1, has_execute |-> TRUE, has_rollback |-> TRUE]).exec
  /\ last = NoCall
  /\ rolled = {}
  /\ thread = NoThreads
  /\ agent = NoAgent

LoopSetupGenerate(decisions) ==
  /\ Len(planner.plans) = 0
  /\ Generate(decisions)

LoopSetupAddTask(task) ==
  /\ last.op \in {"generate", "add_task"}
  /\ AddTask(1, task)

LoopNextTask ==
  /\ \/ last.op \in {"generate", "add_task", "complete_task"}
     \/ last.op = "replan" /\ last.rc = CLS_OK
  /\ NextTask(Len(planner.plans))

LoopExecuteTask(result) ==
  /\ last.op = "next_task" /\ last.rc = CLS_OK
  /\ ExecuteTaskCall(last.plan, last.idx, result)

LoopCompleteTask ==
  /\ last.op = "execute_task"
  /\ CompleteTask(last.plan, last.arg, CLS_IS_OK(last.rc))

LoopReplan ==
  /\ last.op = "next_task" /\ last.rc # CLS_OK
  /\ Replan(last.plan)

NextLoop ==
  \/ \E b \in Batches : LoopSetupGenerate(b)
  \/ \E t \in LoopTaskInputs : LoopSetupAddTask(t)
  \/ LoopNextTask
  \/ \E r \in HandlerResults : LoopExecuteTask(r)
  \/ LoopCompleteTask
  \/ LoopReplan

SpecLoop == InitLoop /\ [][NextLoop]_vars

(* The planner with a table of MaxPlans plans: generate, the two           *)
(* operations that resolve tasks, and replan, over an executor on which    *)
(* no handler is registered (execute_task fails every task).               *)
InitReplan ==
  /\ planner = cls_planner_init(MaxPlans, 1)
  /\ exec = cls_action_init(1, 1)
  /\ last = NoCall
  /\ rolled = {}
  /\ thread = NoThreads
  /\ agent = NoAgent

NextReplan ==
  \/ \E b \in ReplanBatches : Generate(b)
  \/ \E p \in 1..MaxPlans, i \in ReplanTaskIds : ExecuteTask(p, i, CLS_OK)
  \/ \E p \in 1..MaxPlans, id \in ReplanTaskIds, s \in BOOLEAN : CompleteTask(p, id, s)
  \/ \E p \in 1..MaxPlans : Replan(p)

SpecReplan == InitReplan /\ [][NextReplan]_vars

(* The agent core alone, from a zeroed cls_agent_t: initialisation with    *)
(* every outcome, steps (at most MaxCycles of them counted), shutdown and  *)
(* the accessors.                                                          *)
InitOutcomes == {CLS_OK, CLS_ERR_NOMEM, CLS_ERR_INVALID}

LoggerInputs == {"custom", "null"}

InitAgent ==
  /\ planner = cls_planner_init(1, 1)
  /\ exec = cls_action_init(1, 1)
  /\ last = NoCall
  /\ rolled = {}
  /\ thread = NoThreads
  /\ agent = NoAgent

NextAgent ==
  \/ \E has_cfg \in BOOLEAN, outcome \in InitOutcomes : AgentInit(has_cfg, outcome)
  \/ AgentStep
  \/ AgentShutdown
  \/ AgentGetState
  \/ AgentStats
  \/ \E fn \in LoggerInputs : AgentSetLogger(fn)

SpecAgent == InitAgent /\ [][NextAgent]_vars

(***************************************************************************)
(* Properties of the planner (checked under SpecPlan)                      *)
(***************************************************************************)

(* The plan the most recent planner call was about. *)
LastPlan == planner.plans[last.plan]

(* Task i of plan is a candidate: Pending, and every id of its dependency  *)
(* set is the task_id of a Complete task of the plan.                      *)
IsCandidate(plan, i) ==
  /\ plan.tasks[i].status = CLS_PLAN_PENDING
  /\ \A d \in 1..Len(plan.tasks[i].depends_on) :
       \E j \in 1..Len(plan.tasks) :
         /\ plan.tasks[j].task_id = plan.tasks[i].depends_on[d]
         /\ plan.tasks[j].status = CLS_PLAN_COMPLETE

Candidates(plan) == {i \in 1..Len(plan.tasks) : IsCandidate(plan, i)}

(* C1: whenever next_task returns OK, the task it returns is Pending and   *)
(* every id in its dependency set is the task_id of a task of the same     *)
(* plan that is Complete (an id that names no task is not satisfied).      *)
C1_NextTaskDepsSatisfied ==
  (last.op = "next_task" /\ last.rc = CLS_OK) =>
    /\ last.idx \in 1..Len(LastPlan.tasks)
    /\ LastPlan.tasks[last.idx].status = CLS_PLAN_PENDING
    /\ \A d \in 1..Len(LastPlan.tasks[last.idx].depends_on) :
         \E j \in 1..Len(LastPlan.tasks) :
           /\ LastPlan.tasks[j].task_id = LastPlan.tasks[last.idx].depends_on[d]
           /\ LastPlan.tasks[j].status = CLS_PLAN_COMPLETE

(* C1 witness: next_task returned a task that has a dependency. *)
C1_Witness ==
  /\ last.op = "next_task" /\ last.rc = CLS_OK
  /\ Len(LastPlan.tasks[last.idx].depends_on) > 0

(* C2: next_task returns the candidate of highest priority, the earliest   *)
(* in task order among equals, and NotFound exactly when there is no       *)
(* candidate.                                                              *)
C2_NextTaskHighestPriorityFirst ==
  last.op = "next_task" =>
    IF Candidates(LastPlan) = {}
    THEN last.rc = CLS_ERR_NOT_FOUND
    ELSE /\ last.rc = CLS_OK
         /\ last.idx \in Candidates(LastPlan)
         /\ \A j \in Candidates(LastPlan) :
              /\ LastPlan.tasks[j].priority <= LastPlan.tasks[last.idx].priority
              /\ j < last.idx =>
                   LastPlan.tasks[j].priority < LastPlan.tasks[last.idx].priority

(* C2 witness: two candidates of equal priority, the first is returned. *)
C2_Witness ==
  /\ last.op = "next_task" /\ last.rc = CLS_OK
  /\ last.idx = 1
  /\ 2 \in Candidates(LastPlan)
  /\ LastPlan.tasks[2].priority = LastPlan.tasks[1].priority

(* C2 witness of the other signal: NotFound while a Pending task is        *)
(* blocked.                                                                *)
C2_WitnessBlocked ==
  /\ last.op = "next_task" /\ last.rc = CLS_ERR_NOT_FOUND
  /\ \E i \in 1..Len(LastPlan.tasks) : LastPlan.tasks[i].status = CLS_PLAN_PENDING

(* The status changes a task may make. *)
ForwardChanges ==
  {<<CLS_PLAN_PENDING, CLS_PLAN_ACTIVE>>,
   <<CLS_PLAN_ACTIVE, CLS_PLAN_COMPLETE>>,
   <<CLS_PLAN_ACTIVE, CLS_PLAN_FAILED>>}

(* The statuses the task of the call passes through in a step: the one it  *)
(* had before, then the ones the call wrote.                               *)
StatusPath ==
  <<planner.plans[last'.plan].tasks[last'.idx].status>> \o last'.path

(* C3: every status change a task makes in an execute_task or              *)
(* complete_task call is Pending->Active, Active->Complete or              *)
(* Active->Failed, so a Complete or Failed task never changes again.       *)
C3_StatusOnlyForward ==
  [][(last'.op \in {"execute_task", "complete_task"} /\ last'.idx > 0) =>
       \A k \in 1..(Len(StatusPath) - 1) :
         \/ StatusPath[k] = StatusPath[k + 1]
         \/ <<StatusPath[k], StatusPath[k + 1]>> \in ForwardChanges]_vars

(* C3, the part about finished tasks alone: a task that is Complete or     *)
(* Failed never changes status again.                                      *)
C3_TerminalNeverChanges ==
  [][(last'.op \in {"execute_task", "complete_task"} /\ last'.idx > 0) =>
       \A k \in 1..(Len(StatusPath) - 1) :
         StatusPath[k] \in {CLS_PLAN_COMPLETE, CLS_PLAN_FAILED}
           => StatusPath[k + 1] = StatusPath[k]]_vars

AllTerminal(plan) ==
  \A j \in 1..Len(plan.tasks) :
    plan.tasks[j].status \in {CLS_PLAN_COMPLETE, CLS_PLAN_FAILED}

AnyFailed(plan) ==
  \E j \in 1..Len(plan.tasks) : plan.tasks[j].status = CLS_PLAN_FAILED

RECURSIVE Kept(_)
Kept(decisions) ==
  IF decisions = <<>> THEN <<>>
  ELSE IF Head(decisions).confidence >= 1000
    THEN <<Head(decisions)>> \o Kept(Tail(decisions))
    ELSE Kept(Tail(decisions))

InHistory(e, exec_id) ==
  \E i \in 0..(e.max_history - 1) :
    i < e.history_count /\ e.history[i].exec_id = exec_id

(* The record of the history with that exec_id. *)
RecordOf(e, exec_id) ==
  e.history[CHOOSE i \in 0..(e.max_history - 1) :
              i < e.history_count /\ e.history[i].exec_id = exec_id]

(* A handler is registered for action_id. *)
Registered(e, action_id) ==
  \E i \in 1..Len(e.handlers) : e.handlers[i].action_id = action_id

(* A handler with a rollback_fn is registered for action_id. *)
RegisteredWithRollback(e, action_id) ==
  \E i \in 1..Len(e.handlers) :
    e.handlers[i].action_id = action_id /\ e.handlers[i].has_rollback

(* C6: after n executes of registered actions on a history of capacity c,  *)
(* get_record returns OK exactly for the min(n, c) most recently assigned  *)
(* exec_ids, and NotFound for every older one.                             *)
C6_HistoryRetainsMostRecent ==
  LET n == exec.total_executed
      retained == CLS_MIN(n, exec.max_history)
  IN \A id \in 1..n :
       cls_action_get_record(exec, id).rc =
         (IF id > n - retained THEN CLS_OK ELSE CLS_ERR_NOT_FOUND)

(* C7 as stated: a rollback that returns OK leaves the record rolled_back  *)
(* with status RolledBack and total_rollbacks one higher, and every later  *)
(* rollback of that exec_id returns InvalidState.                          *)
C7_RollbackOnce ==
  [][last'.op = "rollback" =>
       /\ CLS_IS_OK(last'.rc) =>
            /\ InHistory(exec', last'.arg)
            /\ RecordOf(exec', last'.arg).rolled_back
            /\ RecordOf(exec', last'.arg).status = CLS_ACTION_ROLLEDBACK
            /\ exec'.total_rollbacks = exec.total_rollbacks + 1
       /\ last'.arg \in rolled => last'.rc = CLS_ERR_STATE]_vars

(* C7 amended: a rollback that returns OK leaves the record rolled_back    *)
(* with status RolledBack and total_rollbacks one higher; every later      *)
(* rollback of that exec_id returns InvalidState while the record is in    *)
(* the history and NotFound once it is evicted; and no step clears the     *)
(* rolled_back of a record that stays in its slot.                         *)
C7_RollbackOnceWhileRetained ==
  [][/\ last'.op = "rollback" =>
          /\ CLS_IS_OK(last'.rc) =>
               /\ last'.arg \notin rolled
               /\ InHistory(exec', last'.arg)
               /\ RecordOf(exec', last'.arg).rolled_back
               /\ RecordOf(exec', last'.arg).status = CLS_ACTION_ROLLEDBACK
               /\ exec'.total_rollbacks = exec.total_rollbacks + 1
          /\ last'.arg \in rolled =>
               last'.rc = (IF InHistory(exec, last'.arg) THEN CLS_ERR_STATE
                                                         ELSE CLS_ERR_NOT_FOUND)
     /\ \A i \in 0..(exec.max_history - 1) :
          (/\ i < exec.history_count
           /\ exec.history[i].rolled_back
           /\ exec'.history[i].exec_id = exec.history[i].exec_id)
            => exec'.history[i].rolled_back]_vars

(* C7 witness: a second rollback of a rolled-back exec_id got InvalidState *)
C7_Witness ==
  /\ last.op = "rollback" /\ last.rc = CLS_ERR_STATE
  /\ last.arg \in rolled
  /\ exec.total_rollbacks = 1

(* C8: rollback returns NotFound when the history holds no record of the   *)
(* exec_id, InvalidState when the record is rolled back already, Invalid   *)
(* when the handler of its action has no rollback function; and whenever   *)
(* it does not return OK (these cases, and a failing rollback function)    *)
(* the executor is left as it was.                                         *)
C8_RollbackErrorsChangeNothing ==
  [][last'.op = "rollback" =>
       /\ ~InHistory(exec, last'.arg) => last'.rc = CLS_ERR_NOT_FOUND
       /\ (InHistory(exec, last'.arg) /\ RecordOf(exec, last'.arg).rolled_back)
            => last'.rc = CLS_ERR_STATE
       /\ (/\ InHistory(exec, last'.arg)
           /\ ~RecordOf(exec, last'.arg).rolled_back
           /\ ~RegisteredWithRollback(exec, RecordOf(exec, last'.arg).action_id))
            => last'.rc = CLS_ERR_INVALID
       /\ ~CLS_IS_OK(last'.rc) => (exec' = exec /\ rolled' = rolled)]_vars

(* C8 witness: the rollback function ran and failed, on an executor that   *)
(* has a rollback behind it.                                               *)
C8_Witness ==
  /\ last.op = "rollback" /\ last.calls = 1 /\ ~CLS_IS_OK(last.rc)
  /\ exec.total_rollbacks = 1

(* C8 witness of the Invalid case: the record's action is registered, with *)
(* no rollback function.                                                   *)
C8_WitnessNoRollbackFn ==
  /\ last.op = "rollback" /\ last.rc = CLS_ERR_INVALID
  /\ InHistory(exec, last.arg)
  /\ Registered(exec, RecordOf(exec, last.arg).action_id)

(* C9: execute of a registered action calls the handler's execute function *)
(* once, returns the handler's result (last.flag) unchanged, and records   *)
(* status Success iff that result is OK, Failed otherwise, with the result *)
(* as result_code; the record is the one appended to the history.          *)
C9_ExecuteReturnsHandlerResult ==
  (last.op = "execute" /\ Registered(exec, last.arg)) =>
    /\ last.calls = 1
    /\ last.rc = last.flag
    /\ last.record.action_id = last.arg
    /\ last.record.result_code = last.flag
    /\ last.record.status =
         (IF last.flag = CLS_OK THEN CLS_ACTION_SUCCESS ELSE CLS_ACTION_FAILED)
    /\ cls_action_get_record(exec, last.record.exec_id).rc = CLS_OK
    /\ cls_action_get_record(exec, last.record.exec_id).record = last.record

(* C9 witness: a handler failed with NotFound of its own. *)
C9_Witness ==
  /\ last.op = "execute" /\ Registered(exec, last.arg)
  /\ last.calls = 1
  /\ last.flag = CLS_ERR_NOT_FOUND
  /\ last.record.status = CLS_ACTION_FAILED

(* C10: execute of an action no handler is registered for returns NotFound *)
(* without calling a handler and leaves the executor (history,             *)
(* history_count, next_exec_id, counters) as it was.                       *)
C10_ExecuteUnregisteredChangesNothing ==
  [][(last'.op = "execute" /\ ~Registered(exec, last'.arg)) =>
       /\ last'.rc = CLS_ERR_NOT_FOUND
       /\ last'.calls = 0
       /\ exec'.history = exec.history
       /\ exec'.history_count = exec.history_count
       /\ exec'.next_exec_id = exec.next_exec_id
       /\ exec'.total_executed = exec.total_executed
       /\ exec'.total_success = exec.total_success
       /\ exec'.total_failed = exec.total_failed]_vars

(* C10 witness: NotFound from the registry on an executor that has already *)
(* executed something and has a handler registered for another action.     *)
C10_Witness ==
  /\ last.op = "execute" /\ last.rc = CLS_ERR_NOT_FOUND /\ last.calls = 0
  /\ ~Registered(exec, last.arg)
  /\ exec.history_count > 0
  /\ Len(exec.handlers) > 0

(***************************************************************************)
(* Properties of replan (checked under SpecReplan)                         *)
(***************************************************************************)

(* A task replan is to carry over: Pending or Failed. *)
Unresolved(t) == t.status \in {CLS_PLAN_PENDING, CLS_PLAN_FAILED}

(* A task whose reward, discounted by 0.8, is at least 0.1. *)
StillConfident(t) == t.reward_estimate * 4 >= 1000 * 5

(* The first n elements of s. *)
FirstN(s, n) == SubSeq(s, 1, IF Len(s) < n THEN Len(s) ELSE n)

(* new lists one task per task of src, in order: same action_id, reward   *)
(* 0.8 times the original's.                                               *)
CarriedOver(new, src) ==
  /\ Len(new.tasks) = Len(src)
  /\ \A k \in 1..Len(src) :
       /\ new.tasks[k].action_id = src[k].action_id
       /\ new.tasks[k].reward_estimate * 5 = src[k].reward_estimate * 4

Carried(failed_plan) ==
  SelectSeq(FirstN(SelectSeq(failed_plan.tasks, Unresolved), 64), StillConfident)

(* C12: every task carried over by replan has, in the new plan, the        *)
(* priority level of the task of failed_plan it was synthesized from.      *)
C12_ReplanKeepsPriority ==
  [][(last'.op = "replan" /\ last'.rc = CLS_OK) =>
       LET src == Carried(planner.plans[last'.plan])
           new == planner'.plans[last'.idx]
       IN \A k \in 1..Len(new.tasks) :
            k <= Len(src) => new.tasks[k].priority = src[k].priority]_vars

(* C13: replan of a plan with at least one Pending or Failed task marks    *)
(* that plan Cancelled and invokes generate (a new plan and both counters  *)
(* one higher, or Overflow from a full table with the counters as they     *)
(* were); with no such task it returns NotFound and changes nothing of the *)
(* planner: no plan, failed_plan's status, plan_count and plans_generated  *)
(* as before.                                                              *)
C13_ReplanCancelsOrNotFound ==
  [][last'.op = "replan" =>
       LET old == planner.plans[last'.plan]
       IN IF \E i \in 1..Len(old.tasks) : Unresolved(old.tasks[i])
          THEN /\ planner'.plans[last'.plan].status = CLS_PLAN_CANCELLED
               /\ IF Len(planner.plans) >= planner.max_plans
                  THEN /\ last'.rc = CLS_ERR_OVERFLOW
                       /\ Len(planner'.plans) = Len(planner.plans)
                       /\ planner'.plans_generated = planner.plans_generated
                  ELSE /\ last'.rc = CLS_OK
                       /\ Len(planner'.plans) = Len(planner.plans) + 1
                       /\ planner'.plans_generated = planner.plans_generated + 1
          ELSE /\ last'.rc = CLS_ERR_NOT_FOUND
               /\ planner' = planner]_vars

(* C13 witness: replan of a plan whose tasks are all Complete returned     *)
(* NotFound, the plan still Complete.                                      *)
C13_Witness ==
  /\ last.op = "replan" /\ last.rc = CLS_ERR_NOT_FOUND
  /\ Len(LastPlan.tasks) > 0
  /\ \A i \in 1..Len(LastPlan.tasks) : LastPlan.tasks[i].status = CLS_PLAN_COMPLETE
  /\ LastPlan.status = CLS_PLAN_COMPLETE

(* C13 witness of the other case: replan cancelled a plan with a Failed    *)
(* task and created a plan.                                                *)
C13_WitnessCancelled ==
  /\ last.op = "replan" /\ last.rc = CLS_OK
  /\ \E i \in 1..Len(LastPlan.tasks) : LastPlan.tasks[i].status = CLS_PLAN_FAILED
  /\ LastPlan.status = CLS_PLAN_CANCELLED
  /\ last.idx = Len(planner.plans)

(***************************************************************************)
(* Further properties of the planner (checked under SpecPlan)              *)
(***************************************************************************)

(* C14: a task that is Pending before a call and not Pending after it was  *)
(* given to execute_task: no other operation moves a task out of Pending.  *)
C14_PendingLeftOnlyByExecuteTask ==
  [][\A p \in 1..Len(planner.plans) :
       \A i \in 1..Len(planner.plans[p].tasks) :
         (/\ planner.plans[p].tasks[i].status = CLS_PLAN_PENDING
          /\ planner'.plans[p].tasks[i].status # CLS_PLAN_PENDING)
           => last'.op = "execute_task"]_vars

(* C15: execute_task writes Active to the task before the handler runs and *)
(* then Complete when the underlying execute returned OK, Failed           *)
(* otherwise; with a handler the return is the handler's result, without   *)
(* one it is NotFound, the task is Failed and the executor (history,       *)
(* counters) is as before.                                                 *)
C15_ExecuteTaskOutcome ==
  [][last'.op = "execute_task" =>
       LET before == planner.plans[last'.plan].tasks[last'.idx]
           after == planner'.plans[last'.plan].tasks[last'.idx]
       IN /\ Len(last'.path) = 2
          /\ last'.path[1] = CLS_PLAN_ACTIVE
          /\ last'.path[2] = after.status
          /\ after.status = IF last'.rc = CLS_OK THEN CLS_PLAN_COMPLETE
                                                ELSE CLS_PLAN_FAILED
          /\ IF Registered(exec, before.action_id)
             THEN /\ last'.calls = 1
                  /\ last'.rc = last'.flag
                  /\ exec'.total_executed = exec.total_executed + 1
             ELSE /\ last'.calls = 0
                  /\ last'.rc = CLS_ERR_NOT_FOUND
                  /\ after.status = CLS_PLAN_FAILED
                  /\ exec' = exec]_vars

(* C15 witness: execute_task of a Pending task whose action has no handler *)
(* returned NotFound; the task is Failed and the history is empty.         *)
C15_Witness ==
  /\ last.op = "execute_task" /\ last.rc = CLS_ERR_NOT_FOUND
  /\ last.path = <<CLS_PLAN_ACTIVE, CLS_PLAN_FAILED>>
  /\ LastPlan.tasks[last.idx].status = CLS_PLAN_FAILED
  /\ ~Registered(exec, LastPlan.tasks[last.idx].action_id)
  /\ exec.history_count = 0

(* C15 witness with a handler: the handler failed, the task is Failed and  *)
(* the failure is in the history.                                          *)
C15_WitnessHandlerFailed ==
  /\ last.op = "execute_task" /\ last.calls = 1
  /\ last.rc = CLS_ERR_NOT_FOUND
  /\ LastPlan.tasks[last.idx].status = CLS_PLAN_FAILED
  /\ exec.history_count = 1

(* The call was complete_task for a task_id whose (first) task in the plan *)
(* was already Complete or Failed.                                         *)
CompletedAgain ==
  /\ last'.op = "complete_task"
  /\ \E i \in 1..Len(planner.plans[last'.plan].tasks) :
       /\ planner.plans[last'.plan].tasks[i].task_id = last'.arg
       /\ planner.plans[last'.plan].tasks[i].status
            \in {CLS_PLAN_COMPLETE, CLS_PLAN_FAILED}
       /\ \A j \in 1..(i - 1) :
            planner.plans[last'.plan].tasks[j].task_id # last'.arg

(* The call repeats the previous one: complete_task, accepted, for the     *)
(* same plan and task_id with the same success flag.                       *)
CompletedTwiceAlike ==
  /\ last.op = "complete_task" /\ last.rc = CLS_OK
  /\ last'.op = "complete_task"
  /\ last'.plan = last.plan /\ last'.arg = last.arg /\ last'.flag = last.flag

RECURSIVE SumConfidence(_)
SumConfidence(decisions) ==
  IF decisions = <<>> THEN 0
  ELSE Head(decisions).confidence + SumConfidence(Tail(decisions))

(* C17: the plan of an accepted batch has total_reward = the sum of the    *)
(* confidences of the included decisions, total_cost = the sum of          *)
(* 1 - confidence over them and success_probability = total_reward /       *)
(* task_count; with no decision included the call is still OK, with        *)
(* task_count = 0 and success_probability = 0.                             *)
C17_GenerateAggregates ==
  (last.op = "generate" /\ last.arg > 0 /\ last.rc # CLS_ERR_OVERFLOW) =>
    /\ last.rc = CLS_OK
    /\ LET kept == Kept(last.batch)
           n == Len(LastPlan.tasks)
           sp == LastPlan.success_probability
       IN /\ n = Len(kept)
          /\ LastPlan.total_reward = SumConfidence(kept)
          /\ LastPlan.total_cost = n * 10000 - SumConfidence(kept)
          /\ sp.den > 0
          /\ IF n = 0 THEN sp.num = 0
             ELSE sp.num * n = LastPlan.total_reward * sp.den

(* C17 witness: the batch [confidence 0.9, confidence 0.05]: one task,     *)
(* total_reward 0.9, total_cost 0.1, success_probability 0.9.              *)
C17_Witness ==
  /\ last.op = "generate" /\ last.rc = CLS_OK
  /\ Len(last.batch) = 2
  /\ last.batch[1].confidence = 9000 /\ last.batch[2].confidence = 500
  /\ Len(LastPlan.tasks) = 1
  /\ LastPlan.total_reward = 9000 /\ LastPlan.total_cost = 1000
  /\ LastPlan.success_probability = [num |-> 9000, den |-> 1]

(* C17 witness of the empty outcome: no decision of the batch survives.    *)
C17_WitnessNoTask ==
  /\ last.op = "generate" /\ last.rc = CLS_OK
  /\ Len(last.batch) > 0
  /\ Len(LastPlan.tasks) = 0
  /\ LastPlan.success_probability.num = 0

(* decision priority / 25 rounded to the nearest level (no priority in     *)
(* 0..100 is half-way), limited to 0..3.                                   *)
RoundedLevel(priority) ==
  LET nearest == (2 * priority + 25) \div 50
  IN IF nearest > 3 THEN 3 ELSE nearest

(* C18: the task generate creates from a decision of priority 0..100 has   *)
(* priority clamp(round(priority / 25), 0, 3).                             *)
C18_PriorityRoundedToLevel ==
  (last.op = "generate" /\ last.rc = CLS_OK) =>
    LET kept == Kept(last.batch)
    IN \A k \in 1..Len(LastPlan.tasks) :
         k <= Len(kept) =>
           LastPlan.tasks[k].priority = RoundedLevel(kept[k].priority)

(* C19: generate returns Invalid for an empty batch (also on a full        *)
(* table), Overflow for a non-empty batch when the table holds max_plans   *)
(* plans, OK otherwise; when it is not OK the planner is as before: no     *)
(* plan, plan_count and plans_generated unchanged.                         *)
C19_GenerateRejects ==
  [][last'.op = "generate" =>
       /\ last'.rc = (IF last'.arg = 0 THEN CLS_ERR_INVALID
                      ELSE IF Len(planner.plans) >= planner.max_plans
                        THEN CLS_ERR_OVERFLOW
                      ELSE CLS_OK)
       /\ last'.rc # CLS_OK => planner' = planner]_vars

(* C19 witness: a non-empty batch was refused with Overflow on a full      *)
(* table.                                                                  *)
C19_Witness ==
  /\ last.op = "generate" /\ last.rc = CLS_ERR_OVERFLOW
  /\ last.arg > 0
  /\ Len(planner.plans) = planner.max_plans
  /\ planner.plans_generated = planner.max_plans

(* C19 witness of Invalid: an empty batch on a full table. *)
C19_WitnessInvalid ==
  /\ last.op = "generate" /\ last.rc = CLS_ERR_INVALID
  /\ last.arg = 0
  /\ Len(planner.plans) = planner.max_plans

(* C20: a successful generate adds one plan, which is Active, and raises   *)
(* plans_generated by exactly 1; no plan of the table is ever Pending.     *)
C20_GeneratedPlanActive ==
  [][/\ (last'.op = "generate" /\ last'.rc = CLS_OK) =>
          /\ last'.plan = Len(planner.plans) + 1
          /\ Len(planner'.plans) = Len(planner.plans) + 1
          /\ planner'.plans[last'.plan].status = CLS_PLAN_ACTIVE
          /\ planner'.plans_generated = planner.plans_generated + 1
     /\ \A p \in 1..Len(planner'.plans) :
          planner'.plans[p].status # CLS_PLAN_PENDING]_vars

(* C20 witness: the first successful generate: plan 1 is Active and        *)
(* plans_generated is 1.                                                   *)
C20_Witness ==
  /\ last.op = "generate" /\ last.rc = CLS_OK
  /\ last.plan = 1
  /\ LastPlan.status = CLS_PLAN_ACTIVE
  /\ LastPlan.plan_id = 1
  /\ planner.plans_generated = 1

(***************************************************************************)
(* Further properties of the executor (checked under SpecExec, SpecReg)    *)
(***************************************************************************)

(* C21: total_executed = total_success + total_failed in every state, and  *)
(* an execute of a registered action raises total_executed by 1 and        *)
(* total_success (handler OK) or total_failed (otherwise) by 1, the other  *)
(* staying; no other call changes the three counters.                      *)
C21_CountersAddUp ==
  [][/\ exec'.total_executed = exec'.total_success + exec'.total_failed
     /\ IF last'.op = "execute" /\ Registered(exec, last'.arg)
        THEN /\ exec'.total_executed = exec.total_executed + 1
             /\ exec'.total_success =
                  exec.total_success + (IF last'.flag = CLS_OK THEN 1 ELSE 0)
             /\ exec'.total_failed =
                  exec.total_failed + (IF last'.flag = CLS_OK THEN 0 ELSE 1)
        ELSE /\ exec'.total_executed = exec.total_executed
             /\ exec'.total_success = exec.total_success
             /\ exec'.total_failed = exec.total_failed]_vars

(* C21 witness: one success and one failure: executed 2, success 1,        *)
(* failed 1.                                                               *)
C21_Witness ==
  /\ last.op = "execute" /\ last.calls = 1
  /\ exec.total_executed = 2
  /\ exec.total_success = 1
  /\ exec.total_failed = 1

(* C22: history_count = min(number of executions, capacity) in every       *)
(* state, and an execute of a registered action on a full history returns  *)
(* the handler's result, leaves history_count at the capacity and leaves   *)
(* its own record retrievable by get_record.                               *)
C22_FullHistoryIsNoError ==
  [][/\ exec'.history_count = CLS_MIN(exec'.total_executed, exec'.max_history)
     /\ (/\ last'.op = "execute" /\ Registered(exec, last'.arg)
         /\ exec.history_count = exec.max_history) =>
          /\ last'.rc = last'.flag
          /\ exec'.history_count = exec.max_history
          /\ cls_action_get_record(exec', last'.record.exec_id).rc = CLS_OK
          /\ cls_action_get_record(exec', last'.record.exec_id).record
               = last'.record]_vars

(* C22 witness: more executions than the history holds; the last one,      *)
(* whose handler failed, is in the history.                                *)
C22_Witness ==
  /\ last.op = "execute" /\ last.calls = 1
  /\ last.flag # CLS_OK /\ last.rc = last.flag
  /\ exec.total_executed > exec.max_history
  /\ exec.history_count = exec.max_history
  /\ InHistory(exec, last.record.exec_id)

(* The exec_ids of the records the history holds. *)
HistoryIds(e) ==
  {e.history[i].exec_id : i \in {j \in 0..(e.max_history - 1) : j < e.history_count}}

C24_RegisterRejects ==
  [][/\ Len(exec'.handlers) <= exec'.max_handlers
     /\ \A i, j \in 1..Len(exec'.handlers) :
          exec'.handlers[i].action_id = exec'.handlers[j].action_id => i = j
     /\ last'.op = "register" =>
          LET null == last'.flag = 0
              dup  == Registered(exec, last'.arg)
              full == Len(exec.handlers) >= exec.max_handlers
          IN /\ null => last'.rc = CLS_ERR_INVALID
             /\ (~null /\ dup /\ ~full) => last'.rc = CLS_ERR_INVALID
             /\ (~null /\ full /\ ~dup) => last'.rc = CLS_ERR_OVERFLOW
             /\ (~null /\ full /\ dup) =>
                  last'.rc \in {CLS_ERR_INVALID, CLS_ERR_OVERFLOW}
             /\ (~null /\ ~dup /\ ~full) =>
                  /\ last'.rc = CLS_OK
                  /\ Len(exec'.handlers) = Len(exec.handlers) + 1
                  /\ exec'.handlers[Len(exec'.handlers)].action_id = last'.arg
                  /\ SubSeq(exec'.handlers, 1, Len(exec.handlers)) = exec.handlers
             /\ last'.rc # CLS_OK => exec'.handlers = exec.handlers]_vars

(* C24 witness: a second register of action 1, with an execute function,   *)
(* on a registry that has room, was rejected as Invalid.                   *)
C24_Witness ==
  /\ last.op = "register" /\ last.rc = CLS_ERR_INVALID
  /\ last.flag = 1 /\ last.arg = 1
  /\ Len(exec.handlers) = 1 /\ exec.handlers[1].action_id = 1
  /\ Len(exec.handlers) < exec.max_handlers

(* A register on a full registry was rejected as Overflow. *)
C24_WitnessOverflow ==
  /\ last.op = "register" /\ last.rc = CLS_ERR_OVERFLOW
  /\ ~Registered(exec, last.arg)
  /\ Len(exec.handlers) = exec.max_handlers

(***************************************************************************)
(* Further properties of a plan's task list (checked under SpecPlan)       *)
(***************************************************************************)

(* C28: in every state no two tasks of one plan share a task_id.           *)
C28_TaskIdsUnique ==
  \A p \in 1..Len(planner.plans) :
    \A i, j \in 1..Len(planner.plans[p].tasks) :
      planner.plans[p].tasks[i].task_id = planner.plans[p].tasks[j].task_id
        => i = j

(* The sums of the cost and reward estimates of a sequence of tasks. *)
RECURSIVE SumCost(_)
SumCost(tasks) ==
  IF tasks = <<>> THEN 0
  ELSE Head(tasks).cost_estimate + SumCost(Tail(tasks))

RECURSIVE SumReward(_)
SumReward(tasks) ==
  IF tasks = <<>> THEN 0
  ELSE Head(tasks).reward_estimate + SumReward(Tail(tasks))

(* C29: in every state total_cost and total_reward of each plan are the    *)
(* sums of its tasks' estimates, and success_probability is                *)
(* total_reward / task_count (0 for a plan without tasks) and lies in      *)
(* [0,1].                                                                  *)
C29_AggregatesMatchTasks ==
  \A p \in 1..Len(planner.plans) :
    LET plan == planner.plans[p]
        n == Len(plan.tasks)
        sp == plan.success_probability
    IN /\ plan.total_cost = SumCost(plan.tasks)
       /\ plan.total_reward = SumReward(plan.tasks)
       /\ sp.den > 0
       /\ 0 <= sp.num /\ sp.num <= One * sp.den
       /\ IF n = 0 THEN sp.num = 0
          ELSE sp.num * n = plan.total_reward * sp.den

(* C30: a plan's capacity is twice the size of the batch that created it   *)
(* and never changes, and the plan never holds more tasks than that;       *)
(* add_task below the capacity returns OK and appends the task, and at the *)
(* capacity returns Overflow and leaves the plan as it was.                *)
C30_TaskCapacity ==
  [][/\ \A p \in 1..Len(planner'.plans) :
          Len(planner'.plans[p].tasks) <= planner'.plans[p].max_tasks
     /\ \A p \in 1..Len(planner.plans) :
          planner'.plans[p].max_tasks = planner.plans[p].max_tasks
     /\ (last'.op = "generate" /\ last'.rc = CLS_OK) =>
          planner'.plans[last'.plan].max_tasks = 2 * last'.arg
     /\ last'.op = "add_task" =>
          LET old == planner.plans[last'.plan]
              new == planner'.plans[last'.plan]
          IN IF Len(old.tasks) < old.max_tasks
             THEN /\ last'.rc = CLS_OK
                  /\ Len(new.tasks) = Len(old.tasks) + 1
                  /\ SubSeq(new.tasks, 1, Len(old.tasks)) = old.tasks
                  /\ new.tasks[Len(new.tasks)].task_id = last'.arg
             ELSE /\ last'.rc = CLS_ERR_OVERFLOW
                  /\ new = old]_vars

(* C30 witness: a plan made from a batch of one decision holds two tasks   *)
(* and add_task was answered Overflow.                                     *)
C30_Witness ==
  /\ last.op = "add_task" /\ last.rc = CLS_ERR_OVERFLOW
  /\ LastPlan.max_tasks = 2
  /\ Len(LastPlan.tasks) = 2

(***************************************************************************)
(* Properties of the owning loop (checked under SpecLoop)                  *)
(***************************************************************************)

(* The tasks of plan that task i depends on: those whose task_id is in its *)
(* dependency set.                                                         *)
DependsOn(plan, i) ==
  {j \in 1..Len(plan.tasks) :
     \E d \in 1..Len(plan.tasks[i].depends_on) :
       plan.tasks[j].task_id = plan.tasks[i].depends_on[d]}

(* The tasks reached from the set S in at most n more dependency steps. *)
RECURSIVE DependsOnWithin(_, _, _)
DependsOnWithin(plan, S, n) ==
  IF n = 0 THEN S
  ELSE DependsOnWithin(plan, S \cup UNION {DependsOn(plan, j) : j \in S}, n - 1)

(* Task i is on a dependency cycle: it depends, directly or through other  *)
(* tasks, on itself.                                                       *)
InCycle(plan, i) ==
  i \in DependsOnWithin(plan, DependsOn(plan, i), Len(plan.tasks))

(* C25: under the owning loop a task on a dependency cycle is Pending in   *)
(* every state and is never returned by next_task, and a plan that holds   *)
(* such a task is never Complete or Failed.                                *)
C25_CyclicTasksStayPending ==
  /\ \A p \in 1..Len(planner.plans) :
       \A i \in 1..Len(planner.plans[p].tasks) :
         InCycle(planner.plans[p], i) =>
           /\ planner.plans[p].tasks[i].status = CLS_PLAN_PENDING
           /\ planner.plans[p].status \notin {CLS_PLAN_COMPLETE, CLS_PLAN_FAILED}
  /\ (last.op = "next_task" /\ last.rc = CLS_OK) =>
       ~InCycle(LastPlan, last.idx)

(* The number of tasks of all plans that have left Pending. *)
RECURSIVE StartedTasks(_)
StartedTasks(plans) ==
  IF plans = <<>> THEN 0
  ELSE Cardinality({i \in 1..Len(Head(plans).tasks) :
                      Head(plans).tasks[i].status # CLS_PLAN_PENDING})
       + StartedTasks(Tail(plans))

(* C26: in the owning loop next_task returns only a Pending task, so       *)
(* execute_task is given a Pending task, invokes its handler at most once  *)
(* and leaves it Complete or Failed; no call makes a task Pending again,   *)
(* so no task is executed twice: the handler invocations never exceed the  *)
(* number of tasks that have left Pending. A task made by replan is a task *)
(* of the new plan.                                                        *)
C26_NoAutomaticRetry ==
  [][/\ \A p \in 1..Len(planner.plans) :
          \A i \in 1..Len(planner.plans[p].tasks) :
            planner.plans[p].tasks[i].status # CLS_PLAN_PENDING =>
              planner'.plans[p].tasks[i].status # CLS_PLAN_PENDING
     /\ (last'.op = "next_task" /\ last'.rc = CLS_OK) =>
          planner.plans[last'.plan].tasks[last'.idx].status = CLS_PLAN_PENDING
     /\ last'.op = "execute_task" =>
          /\ planner.plans[last'.plan].tasks[last'.idx].status = CLS_PLAN_PENDING
          /\ planner'.plans[last'.plan].tasks[last'.idx].status
               \in {CLS_PLAN_COMPLETE, CLS_PLAN_FAILED}
          /\ last'.calls <= 1
          /\ exec'.total_executed = exec.total_executed + last'.calls
     /\ last'.op # "execute_task" => exec'.total_executed = exec.total_executed
     /\ last'.op = "replan" =>
          \A p \in 1..Len(planner.plans) :
            Len(planner'.plans[p].tasks) = Len(planner.plans[p].tasks)
     /\ exec'.total_executed <= StartedTasks(planner'.plans)]_vars

(* C26 witness: the handler of action 1 failed for task 1 of the first     *)
(* plan, next_task then found nothing, and after replan the handler ran    *)
(* again, for task 1 of the second plan.                                   *)
C26_Witness ==
  /\ last.op = "execute_task" /\ last.plan = 2 /\ last.calls = 1
  /\ Len(planner.plans) = 2
  /\ planner.plans[1].tasks[1].status = CLS_PLAN_FAILED
  /\ planner.plans[1].tasks[1].action_id = 1
  /\ planner.plans[2].tasks[last.idx].action_id = 1
  /\ exec.total_executed = 2

(* C26 witness inside one plan: next_task answered NotFound although the   *)
(* plan holds a Failed task whose handler ran once.                        *)
C26_WitnessNotReturned ==
  /\ last.op = "next_task" /\ last.rc = CLS_ERR_NOT_FOUND
  /\ \E i \in 1..Len(LastPlan.tasks) : LastPlan.tasks[i].status = CLS_PLAN_FAILED
  /\ exec.total_failed = 1 /\ exec.total_executed = 1

(***************************************************************************)
(* Two unserialized callers of cls_action_execute (checked under SpecConc) *)
(***************************************************************************)

(* Caller t has returned from an execute whose handler ran. *)
Ran(t) == thread[t].pc = "done" /\ thread[t].calls = 1

BothRan == \A t \in Threads : Ran(t)

SameExecId == thread[1].exec_id = thread[2].exec_id

(* C27: a call that ran with the other caller idle leaves the executor as  *)
(* cls_action_execute run as a whole does. Once both callers have run a    *)
(* registered action, interleaved in any way, next_exec_id has advanced by *)
(* one or two and the counters and history_count stand at one or two: both *)
(* records carry the same exec_id exactly when an update of next_exec_id   *)
(* was lost, and nothing is counted or stored more often than under        *)
(* serial calls.                                                           *)
C27_UnserializedExecuteOutcomes ==
  /\ \A t, u \in Threads :
       (Ran(t) /\ thread[u].pc = "idle") =>
         exec = cls_action_execute(SharedExec, thread[t].action_id,
                                   thread[t].result).exec
  /\ BothRan =>
       /\ exec.next_exec_id \in {2, 3}
       /\ SameExecId <=> exec.next_exec_id = 2
       /\ {thread[t].exec_id : t \in Threads} \subseteq {1, 2}
       /\ exec.total_executed \in {1, 2}
       /\ exec.total_success + exec.total_failed \in {1, 2}
       /\ exec.history_count \in {1, 2}

(* C27 witness: both calls have returned and their records carry the same  *)
(* exec_id.                                                                *)
C27_Witness ==
  /\ BothRan
  /\ SameExecId
  /\ last.op = "execute" /\ last.record.exec_id = 1
  /\ exec.next_exec_id = 2

(* C27 witness of a lost counter increment: two handler runs, one counted. *)
C27_WitnessLostCount ==
  /\ BothRan
  /\ exec.total_executed = 1

(* C27 witness of a lost history record: two handler runs with distinct    *)
(* exec_ids, room for both records, and only one of them in the history.   *)
C27_WitnessLostRecord ==
  /\ BothRan
  /\ ~SameExecId
  /\ exec.max_history >= 2
  /\ \E t \in Threads : ~InHistory(exec, thread[t].exec_id)

(* C27 witness of the serial outcome: distinct exec_ids, both counted,     *)
(* both stored.                                                            *)
C27_WitnessSerial ==
  /\ BothRan
  /\ ~SameExecId
  /\ exec.total_executed = 2
  /\ exec.total_success + exec.total_failed = 2
  /\ \A t \in Threads : InHistory(exec, thread[t].exec_id)

(***************************************************************************)
(* Error reporting of execute (checked under SpecExec)                     *)
(***************************************************************************)

(* C31: execute returns NotFound only when no handler is registered for    *)
(* action_id (no handler was invoked), and whenever a handler was invoked  *)
(* the value returned is the handler's own code and the record of the      *)
(* execution is in the history.                                            *)
C31_NotFoundMeansUnregistered ==
  last.op = "execute" =>
    /\ last.rc = CLS_ERR_NOT_FOUND =>
         /\ last.calls = 0
         /\ ~Registered(exec, last.arg)
    /\ last.calls = 1 =>
         /\ last.rc = last.flag
         /\ InHistory(exec, last.record.exec_id)

(***************************************************************************)
(* The goal table (checked under SpecGoal)                                 *)
(***************************************************************************)

HasGoal(p, goal_id) == \E i \in 1..Len(p.goals) : p.goals[i].goal_id = goal_id

(* C32: add_goal on a full table returns Overflow and changes nothing,     *)
(* and otherwise appends the goal; remove_goal and update_goal of an id    *)
(* not in the table return NotFound and change nothing; update_goal of a   *)
(* present id stores the progress in one goal of that id, sets its         *)
(* achieved when the progress is >= 1.0 and changes no other goal;         *)
(* remove_goal of a present id removes one goal of that id and keeps the   *)
(* others in order. The table never holds more than max_goals goals.       *)
C32_GoalTable ==
  [][/\ Len(planner'.goals) <= planner'.max_goals
     /\ last'.op = "add_goal" =>
          IF Len(planner.goals) >= planner.max_goals
          THEN last'.rc = CLS_ERR_OVERFLOW /\ planner'.goals = planner.goals
          ELSE /\ last'.rc = CLS_OK
               /\ Len(planner'.goals) = Len(planner.goals) + 1
               /\ SubSeq(planner'.goals, 1, Len(planner.goals)) = planner.goals
               /\ planner'.goals[Len(planner'.goals)].goal_id = last'.arg
     /\ last'.op = "remove_goal" =>
          IF ~HasGoal(planner, last'.arg)
          THEN last'.rc = CLS_ERR_NOT_FOUND /\ planner'.goals = planner.goals
          ELSE /\ last'.rc = CLS_OK
               /\ \E i \in 1..Len(planner.goals) :
                    /\ planner.goals[i].goal_id = last'.arg
                    /\ planner'.goals =
                         SubSeq(planner.goals, 1, i - 1) \o
                         SubSeq(planner.goals, i + 1, Len(planner.goals))
     /\ last'.op = "update_goal" =>
          IF ~HasGoal(planner, last'.arg)
          THEN last'.rc = CLS_ERR_NOT_FOUND /\ planner'.goals = planner.goals
          ELSE /\ last'.rc = CLS_OK
               /\ Len(planner'.goals) = Len(planner.goals)
               /\ \E i \in 1..Len(planner.goals) :
                    /\ planner.goals[i].goal_id = last'.arg
                    /\ planner'.goals[i].goal_id = last'.arg
                    /\ planner'.goals[i].progress = last'.flag
                    /\ last'.flag >= One => planner'.goals[i].achieved
                    /\ \A j \in 1..Len(planner.goals) :
                         j # i => planner'.goals[j] = planner.goals[j]]_vars

(* C32 witness: update_goal stored progress 1.0 in a goal that was not     *)
(* achieved and is achieved now, in a table that holds two goals.          *)
C32_Witness ==
  /\ last.op = "update_goal" /\ last.rc = CLS_OK /\ last.flag = One
  /\ Len(planner.goals) = 2
  /\ planner.goals[last.idx].progress = One
  /\ planner.goals[last.idx].achieved
  /\ \E j \in 1..Len(planner.goals) : ~planner.goals[j].achieved

(* add_goal was answered Overflow on the full table. *)
C32_WitnessOverflow ==
  /\ last.op = "add_goal" /\ last.rc = CLS_ERR_OVERFLOW
  /\ Len(planner.goals) = planner.max_goals

(* remove_goal removed the first of two goals. *)
C32_WitnessRemoved ==
  /\ last.op = "remove_goal" /\ last.rc = CLS_OK /\ last.idx = 1
  /\ Len(planner.goals) = 1

(***************************************************************************)
(* Frame properties (checked under SpecRead and SpecExec)                  *)
(***************************************************************************)

ReadOps == {"next_task", "evaluate", "get_record", "history_count", "stats"}

(* C33: a call of next_task, evaluate, get_record, history_count or stats, *)
(* whatever it returns, leaves the planner (every plan's status,           *)
(* aggregates and task statuses) and the executor (registry, history,      *)
(* counters) as they were.                                                 *)
C33_ReadsChangeNothing ==
  [][last'.op \in ReadOps =>
       /\ planner' = planner
       /\ exec' = exec
       /\ rolled' = rolled]_vars

(* C33 witness: evaluate of a plan that holds a Complete task, after one   *)
(* execution, found the plan feasible.                                     *)
C33_Witness ==
  /\ last.op = "evaluate" /\ last.rc = CLS_OK /\ last.flag = 1
  /\ \E i \in 1..Len(LastPlan.tasks) : LastPlan.tasks[i].status = CLS_PLAN_COMPLETE
  /\ exec.total_executed = 1
  /\ planner.plans_generated = 1

(* C33 witness of a read that reports a miss: get_record answered NotFound *)
(* with a record in the history.                                           *)
C33_WitnessNotFound ==
  /\ last.op = "get_record" /\ last.rc = CLS_ERR_NOT_FOUND
  /\ exec.history_count = 1

(* C34: a rollback, whatever it returns, leaves total_executed,            *)
(* total_success, total_failed, history_count, next_exec_id and the        *)
(* registry as they were; a rollback that returns OK raises                *)
(* total_rollbacks by 1 and changes only rolled_back and status of one     *)
(* record with the exec_id, and any other rollback changes nothing.        *)
C34_RollbackKeepsExecutionCounts ==
  [][last'.op = "rollback" =>
       /\ exec'.total_executed = exec.total_executed
       /\ exec'.total_success = exec.total_success
       /\ exec'.total_failed = exec.total_failed
       /\ exec'.history_count = exec.history_count
       /\ exec'.next_exec_id = exec.next_exec_id
       /\ exec'.handlers = exec.handlers
       /\ IF last'.rc = CLS_OK
          THEN /\ exec'.total_rollbacks = exec.total_rollbacks + 1
               /\ \E i \in 0..(exec.max_history - 1) :
                    /\ i < exec.history_count
                    /\ exec.history[i].exec_id = last'.arg
                    /\ exec'.history =
                         [exec.history EXCEPT ![i].rolled_back = TRUE,
                                              ![i].status = CLS_ACTION_ROLLEDBACK]
          ELSE exec' = exec]_vars

(* C34 witness: three executes and one successful rollback: executed 3,    *)
(* rollbacks 1.                                                            *)
C34_Witness ==
  /\ last.op = "rollback" /\ last.rc = CLS_OK
  /\ exec.total_executed = 3
  /\ exec.total_success + exec.total_failed = 3
  /\ exec.total_rollbacks = 1
  /\ RecordOf(exec, last.arg).rolled_back

(***************************************************************************)
(* Properties of the agent core (checked under SpecAgent)                  *)
(***************************************************************************)

(* C35: the agent lifecycle.  An initialisation that returns OK leaves the *)
(* state READY with cycle_count 0; a step that returns OK raises           *)
(* cycle_count by exactly 1 and leaves the state READY, and nothing but a  *)
(* successful step or an initialisation changes cycle_count, so k          *)
(* successful steps since the initialisation give cycle_count = k; a       *)
(* shutdown that returns OK leaves the state INIT, and from then on, until *)
(* the object is initialised again, every step returns a State error and   *)
(* changes nothing.                                                        *)
C35_AgentLifecycle ==
  [][/\ (last'.op = "agent_init" /\ last'.rc = CLS_OK)
          => /\ agent'.state = CLS_STATE_READY
             /\ agent'.cycle_count = 0
     /\ (last'.op = "agent_step" /\ last'.rc = CLS_OK)
          => /\ agent'.cycle_count = agent.cycle_count + 1
             /\ agent'.state = CLS_STATE_READY
     /\ ~(\/ last'.op = "agent_init"
          \/ last'.op = "agent_step" /\ last'.rc = CLS_OK)
          => agent'.cycle_count = agent.cycle_count
     /\ (last'.op = "agent_shutdown" /\ last'.rc = CLS_OK)
          => /\ agent'.state = CLS_STATE_INIT
             /\ agent'.shutting_down
     /\ (agent.shutting_down /\ last'.op # "agent_init")
          => /\ agent'.shutting_down
             /\ agent'.state = CLS_STATE_INIT
     /\ (agent.shutting_down /\ last'.op = "agent_step")
          => /\ last'.rc = CLS_ERR_STATE
             /\ agent' = agent]_vars

(* C35 witness: a step after a shutdown that followed two successful steps *)
(* returned a State error; cycle_count is still 2 and the state INIT.      *)
C35_Witness ==
  /\ last.op = "agent_step"
  /\ last.rc = CLS_ERR_STATE
  /\ agent.initialized
  /\ agent.shutting_down
  /\ agent.state = CLS_STATE_INIT
  /\ agent.cycle_count = 2

(* C35 witness: the MaxCycles-th successful step since the initialisation. *)
C35_WitnessSteps ==
  /\ last.op = "agent_step"
  /\ last.rc = CLS_OK
  /\ last.idx = MaxCycles - 1
  /\ agent.cycle_count = MaxCycles
  /\ agent.state = CLS_STATE_READY

(* Every dependency id of plan names a task of plan, and no task of plan   *)
(* is on a dependency cycle.                                               *)
AcyclicWithinPlan(plan) ==
  \A i \in 1..Len(plan.tasks) :
    /\ ~InCycle(plan, i)
    /\ \A d \in 1..Len(plan.tasks[i].depends_on) :
         \E j \in 1..Len(plan.tasks) :
           plan.tasks[j].task_id = plan.tasks[i].depends_on[d]

(* C36: when next_task ends the owning loop with NotFound and the plan's   *)
(* dependencies are acyclic and name only tasks of the plan, the plan is   *)
(* Complete or Failed.                                                     *)
C36_LoopEndsCompleteOrFailed ==
  (/\ last.op = "next_task"
   /\ last.rc = CLS_ERR_NOT_FOUND
   /\ AcyclicWithinPlan(LastPlan))
    => LastPlan.status \in {CLS_PLAN_COMPLETE, CLS_PLAN_FAILED}

(* C37: in every reachable state a Complete plan has only Complete tasks,  *)
(* and a Failed plan has only Complete or Failed tasks, at least one of    *)
(* them Failed.                                                            *)
C37_PlanStatusMatchesTasks ==
  \A p \in 1..Len(planner.plans) :
    LET plan == planner.plans[p]
    IN /\ plan.status = CLS_PLAN_COMPLETE =>
            \A i \in 1..Len(plan.tasks) :
              plan.tasks[i].status = CLS_PLAN_COMPLETE
       /\ plan.status = CLS_PLAN_FAILED =>
            /\ \A i \in 1..Len(plan.tasks) :
                 plan.tasks[i].status \in {CLS_PLAN_COMPLETE, CLS_PLAN_FAILED}
            /\ \E i \in 1..Len(plan.tasks) :
                 plan.tasks[i].status = CLS_PLAN_FAILED

(***************************************************************************)
(* Further properties of replan (checked under SpecReplan)                 *)
(***************************************************************************)

(* C38: Cancelled is terminal: a plan that is Cancelled before a call is   *)
(* Cancelled after it.                                                     *)
C38_CancelledIsTerminal ==
  [][\A p \in 1..Len(planner.plans) :
       planner.plans[p].status = CLS_PLAN_CANCELLED =>
         planner'.plans[p].status = CLS_PLAN_CANCELLED]_vars

(* C39: a replan that returns Overflow creates no plan and leaves the      *)
(* status of failed_plan as it was, and a replan that leaves failed_plan   *)
(* newly Cancelled has created a plan.                                     *)
C39_ReplanAllOrNothing ==
  [][last'.op = "replan" =>
       /\ last'.rc = CLS_ERR_OVERFLOW =>
            /\ Len(planner'.plans) = Len(planner.plans)
            /\ planner'.plans[last'.plan].status
                 = planner.plans[last'.plan].status
       /\ (/\ planner.plans[last'.plan].status # CLS_PLAN_CANCELLED
           /\ planner'.plans[last'.plan].status = CLS_PLAN_CANCELLED)
            => Len(planner'.plans) = Len(planner.plans) + 1]_vars

(***************************************************************************)
(* Termination of the owning loop (checked under SpecLoop)                 *)
(***************************************************************************)

(* The Pending tasks of a plan. *)
PendingTasks(plan) ==
  {i \in 1..Len(plan.tasks) : plan.tasks[i].status = CLS_PLAN_PENDING}

(* C40: an iteration of the owning loop moves exactly one task of the plan *)
(* out of Pending and none into it: next_task changes nothing and returns  *)
(* a Pending task, the iteration that ends with complete_task leaves the   *)
(* Pending tasks it found less the one next_task returned, and the tasks   *)
(* that have left Pending never outnumber the tasks of the plan, which     *)
(* bounds the iterations by task_count.                                    *)
C40_IterationRetiresOneTask ==
  [][/\ last'.op = "next_task" =>
          /\ planner' = planner
          /\ last'.rc = CLS_OK => last'.idx \in PendingTasks(LastPlan')
     /\ last'.op = "execute_task" =>
          PendingTasks(planner'.plans[last'.plan])
            = PendingTasks(planner.plans[last'.plan]) \ {last'.idx}
     /\ last'.op = "complete_task" =>
          /\ PendingTasks(planner'.plans[last'.plan])
               = PendingTasks(planner.plans[last'.plan])
          /\ Len(planner'.plans[last'.plan].tasks)
               = Len(planner.plans[last'.plan].tasks)]_vars

====
